---- MODULE Spec2Model ----
(***************************************************************************)
(* Model of the VHS v2 frame pipeline of scripts/vhs_v2_processor.py       *)
(* (VHSv2VideoProcessor) and of the process_video loop that drives it.     *)
(*                                                                         *)
(* Arithmetic.  The code computes in float32; the model computes the same  *)
(* expressions in exact rational arithmetic.  A plane of floats is a       *)
(* record [n |-> numerators, d |-> common denominator] kept in lowest      *)
(* terms, so two planes are equal as values iff they are equal as          *)
(* records.  Casts to uint8 truncate, as numpy's astype does.  Rounding    *)
(* errors of float32 (about 1e-5 at these magnitudes) are not modelled.    *)
(***************************************************************************)
EXTENDS Integers, Sequences, FiniteSets, TLC

VARIABLES
    params,        \* the parameter dict handed to process_video / process_frame
    default_params,\* self.default_params
    ring_pattern,  \* self.ring_pattern, built by __init__
    rng,           \* state of numpy's global random generator
    seed,          \* the state the generator had when the program started
    pc,            \* position in main / process_video / process_frame
    frame,         \* the frame being processed (input of process_frame)
    yiq,           \* the local yiq of process_frame
    result,        \* the local result of process_frame / its return value
    trace,         \* the stages process_frame has run on the current frame
    ring,          \* locals of the last apply_ringing call, per plane
    stage_in,      \* the argument of the last stage call
    err,           \* the exception that ended the run, "none" if none
    video,         \* the input video: frame height and width, number of frames
    decoded,       \* number of frames cap.read() has returned
    written,       \* the calls of out.write, in order: [k |-> index of the decoded
                   \* frame, image |-> the frame handed over]
    size,          \* the argument size of generate_ring_pattern
    gen_pattern,   \* the local pattern of generate_ring_pattern
    patterns,      \* the arrays the calls of generate_ring_pattern returned
    argv,          \* the command line of main: [script, argc, json_ok, output_path]
    console,       \* the lines printed on stdout, in order
    cap,           \* the input capture: "None", "open" or "released"
    writer,        \* the local out of process_video: "None", "open" or "released"
    tried,         \* the codecs a writer was constructed with, in order
    total_frames,  \* the frame count the capture reports
    frame_count,   \* the local frame_count of process_video
    files,         \* what the paths temp_output and output_path hold
    calls,         \* the calls of ffmpeg, os.remove, os.rename and
                   \* validate_video made after the frame loop, with outcomes;
                   \* for VHSv1, the calls of process_video with the noise
                   \* settings their frames used
    exit_status,   \* the exit status of the process, -1 while it runs
    supplied       \* the params dict as the caller of VHSv1's process_video built
                   \* it, before any call

patternVars == <<size, gen_pattern, patterns>>

runVars == <<argv, console, cap, writer, tried, total_frames, frame_count, files, calls,
             exit_status>>

frameVars == <<ring_pattern, rng, seed, frame, yiq, result, trace, ring, stage_in>>

vars == <<params, default_params, ring_pattern, rng, seed, pc, frame, yiq, result,
          trace, ring, stage_in, err, video, decoded, written, patternVars, runVars,
          supplied>>

----------------------------------------------------------------------------
(* Bounds of the model *)

MaxRows == 2       \* frame heights 1..MaxRows (restricted to DftLengths)
MaxCols == 3       \* frame widths 1..MaxCols (restricted to DftLengths)
MaxFrames == 2     \* frames in the input video: 0..MaxFrames
NumSeeds == 2      \* initial states of the random generator
MaxStripeCols == 6 \* widths 2..MaxStripeCols of the striped test planes
MaxPatternSize == 12 \* sizes 2..MaxPatternSize of generate_ring_pattern
MaxReported == 3   \* frame counts 0..MaxReported reported by the capture
MaxCalls == 2      \* calls of VHSv1's process_video by one caller

----------------------------------------------------------------------------
(* Integer helpers *)

Abs(x) == IF x < 0 THEN -x ELSE x

Min(a, b) == IF a < b THEN a ELSE b

Max(a, b) == IF a > b THEN a ELSE b

RECURSIVE GcdNat(_, _)
GcdNat(a, b) == IF b = 0 THEN a ELSE GcdNat(b, a % b)

Gcd(a, b) == GcdNat(Abs(a), Abs(b))

Lcm(a, b) == (a \div Gcd(a, b)) * b

\* <<floor(c * r / d), (c * r) mod d>> for 0 <= r < d, by doubling, so that no
\* intermediate value exceeds 3 * d
RECURSIVE MulDivModNat(_, _, _)
MulDivModNat(c, r, d) ==
    IF c = 0 THEN <<0, 0>>
    ELSE LET h == MulDivModNat(c \div 2, r, d)
             m == 2 * h[2] + (c % 2) * r
         IN  <<2 * h[1] + m \div d, m % d>>

MulDivMod(c, r, d) ==
    IF c >= 0 THEN MulDivModNat(c, r, d)
    ELSE LET h == MulDivModNat(-c, r, d)
         IN  IF h[2] = 0 THEN <<-h[1], 0>> ELSE <<-h[1] - 1, d - h[2]>>

RECURSIVE SumOver(_, _)
SumOver(f, S) ==
    IF S = {} THEN 0
    ELSE LET q == CHOOSE q \in S : TRUE IN f[q] + SumOver(f, S \ {q})

RECURSIVE GcdOver(_, _, _)
GcdOver(f, S, g) ==
    IF S = {} THEN g
    ELSE LET q == CHOOSE q \in S : TRUE IN GcdOver(f, S \ {q}, Gcd(g, f[q]))

----------------------------------------------------------------------------
(* Planes: a numpy float32 array of shape (rows, cols) *)

Pos(rows, cols) == (0 .. rows - 1) \X (0 .. cols - 1)

\* the array f with its elements computed once: TLC evaluates the expression
\* [x \in S |-> e] anew at every application unless the function was compared
Array(f) == IF f = <<>> THEN <<>> ELSE f

\* the plane num/den in lowest terms (den > 0)
Plane(num, den) ==
    LET a == Array(num)
        g == GcdOver(a, DOMAIN a, den)
    IN  [n |-> Array([q \in DOMAIN a |-> a[q] \div g]), d |-> den \div g]

\* plane * (a / b), for b # 0, reduced before multiplying
ScalePlane(p, a, b) ==
    LET s  == IF b < 0 THEN -1 ELSE 1
        g0 == Gcd(a, b)
        a0 == IF g0 = 0 THEN 0 ELSE s * (a \div g0)
        b0 == IF g0 = 0 THEN 1 ELSE Abs(b) \div g0
        gn == GcdOver(p.n, DOMAIN p.n, b0)
        gd == Gcd(a0, p.d)
        a1 == IF gd = 0 THEN a0 ELSE a0 \div gd
        d1 == IF gd = 0 THEN p.d ELSE p.d \div gd
        b1 == b0 \div gn
    IN  Plane([q \in DOMAIN p.n |-> (p.n[q] \div gn) * a1], d1 * b1)

\* p + q, planes of the same shape
AddPlanes(p, q) ==
    LET g == Gcd(p.d, q.d)
        mp == q.d \div g
        mq == p.d \div g
    IN  Plane([z \in DOMAIN p.n |-> p.n[z] * mp + q.n[z] * mq], p.d * mq)

\* np.mean(plane) as the pair <<sum of numerators, count * denominator>>
PlaneSum(p) == SumOver(p.n, DOMAIN p.n)

Mean(p) ==
    LET s == PlaneSum(p)
        c == Cardinality(DOMAIN p.n) * p.d
        g == Gcd(s, c)
    IN  <<s \div g, c \div g>>

IsUniformPlane(p) == \A q1, q2 \in DOMAIN p.n : p.n[q1] = p.n[q2]

----------------------------------------------------------------------------
(* Frames: a numpy uint8 array of shape (rows, cols, 3), channels B, G, R *)

MaxSample == 255

Samples == 0 .. MaxSample

B == 1
G == 2
R == 3

CoefScale == 1000   \* the matrix coefficients are written to three decimals

NoYiq == [rows |-> 0, cols |-> 0, Y |-> Plane(<<>>, 1), I |-> Plane(<<>>, 1),
          Q |-> Plane(<<>>, 1)]

NoFrame == [rows |-> 0, cols |-> 0, px |-> <<>>]

\* bgr2yiq reading the planes as r, g, b = planar
bgr2yiq_rgb_order(f) ==
    LET P == Pos(f.rows, f.cols) IN
    [rows |-> f.rows, cols |-> f.cols,
     Y |-> Plane([q \in P |-> 299 * f.px[q][B] + 587 * f.px[q][G] + 114 * f.px[q][R]],
                 CoefScale),
     I |-> Plane([q \in P |-> 596 * f.px[q][B] - 274 * f.px[q][G] - 322 * f.px[q][R]],
                 CoefScale),
     Q |-> Plane([q \in P |-> 211 * f.px[q][B] - 523 * f.px[q][G] + 312 * f.px[q][R]],
                 CoefScale)]

\* bgr2yiq with the blue weight of Y mistyped as 0.144
bgr2yiq_blue_weight(f) ==
    LET P == Pos(f.rows, f.cols) IN
    [rows |-> f.rows, cols |-> f.cols,
     Y |-> Plane([q \in P |-> 299 * f.px[q][R] + 587 * f.px[q][G] + 144 * f.px[q][B]],
                 CoefScale),
     I |-> Plane([q \in P |-> 596 * f.px[q][R] - 274 * f.px[q][G] - 322 * f.px[q][B]],
                 CoefScale),
     Q |-> Plane([q \in P |-> 211 * f.px[q][R] - 523 * f.px[q][G] + 312 * f.px[q][B]],
                 CoefScale)]

\* bgr2yiq: Y, I, Q planes from the B, G, R planes
bgr2yiq(f) ==
    LET P == Pos(f.rows, f.cols) IN
    [rows |-> f.rows, cols |-> f.cols,
     Y |-> Plane([q \in P |-> 299 * f.px[q][R] + 587 * f.px[q][G] + 114 * f.px[q][B]],
                 CoefScale),
     I |-> Plane([q \in P |-> 596 * f.px[q][R] - 274 * f.px[q][G] - 322 * f.px[q][B]],
                 CoefScale),
     Q |-> Plane([q \in P |-> 211 * f.px[q][R] - 523 * f.px[q][G] + 312 * f.px[q][B]],
                 CoefScale)]

\* floor((cy*Y + ci*I + cq*Q) / 1000) at position q: a channel of yiq2bgr with
\* its coefficients given in thousandths, before the clip and the cast;
\* computed by parts so that no product leaves 32 bits
ChannelFloor(y, q, cy, ci, cq) ==
    LET L  == Lcm(Lcm(y.Y.d, y.I.d), y.Q.d)
        \* c * n / d = whole + rest / d, 0 <= rest < d
        part(c, p)  == MulDivMod(c, p.n[q] % p.d, p.d)
        whole(c, p) == c * (p.n[q] \div p.d) + part(c, p)[1]
        rest(c, p)  == part(c, p)[2] * (L \div p.d)
        K == whole(cy, y.Y) + whole(ci, y.I) + whole(cq, y.Q)
        F == rest(cy, y.Y) + rest(ci, y.I) + rest(cq, y.Q)
    IN  (K + (F \div L)) \div CoefScale

\* the cast without the clip
NoClip(fl) == fl

\* np.clip(v, 0, 255).astype(np.uint8) of a float whose floor is fl
ClipToSample(fl) == Max(0, Min(MaxSample, fl))

\* yiq2bgr: B, G, R samples from the Y, I, Q planes
yiq2bgr(y) ==
    [rows |-> y.rows, cols |-> y.cols,
     px |-> Array([q \in Pos(y.rows, y.cols) |->
                     << ClipToSample(ChannelFloor(y, q, 1000, -1105, 1702)),
                        ClipToSample(ChannelFloor(y, q, 1000, -272, -647)),
                        ClipToSample(ChannelFloor(y, q, 1000, 956, 619)) >>])]

----------------------------------------------------------------------------
(* The ring pattern *)

PatternSize == 720

PatScale == 4      \* pattern values are kept in quarters

\* generate_ring_pattern(720), each value rounded to the nearest quarter, as
\* runs <<value, length>>:  sin(4x)exp(-x/4), min-max normalised, plus
\* 0.3 sin(8x)exp(-x/2), min-max normalised again
RingRuns ==
    << <<2, 7>>, <<3, 10>>, <<4, 28>>, <<3, 16>>, <<2, 41>>, <<1, 26>>, <<0, 36>>,
       <<1, 14>>, <<2, 14>>, <<3, 45>>, <<2, 43>>, <<1, 76>>, <<2, 29>>, <<3, 19>>,
       <<2, 57>>, <<1, 72>>, <<2, 110>>, <<1, 66>>, <<2, 11>> >>

RECURSIVE RunValue(_, _, _)
RunValue(runs, k, i) ==
    IF i < runs[k][2] THEN runs[k][1] ELSE RunValue(runs, k + 1, i - runs[k][2])

\* a sequence: ring_pattern[i + 1] is the code's ring_pattern[i]
generate_ring_pattern == [i \in 1 .. PatternSize |-> RunValue(RingRuns, 1, i - 1)]

----------------------------------------------------------------------------
(* apply_ringing *)

RECURSIVE Pow(_, _)
Pow(b, e) == IF e = 0 THEN 1 ELSE b * Pow(b, e - 1)

\* DFT lengths whose roots of unity are Eisenstein integers a + b*w,
\* w = exp(2*pi*i/3): the lengths the model can transform exactly
DftLengths == {1, 2, 3, 6}

\* the sixth roots of unity zeta^m, zeta = exp(2*pi*i/6) = 1 + w, as <<a, b>>
Zeta(m) ==
    CASE m % 6 = 0 -> <<1, 0>>
      [] m % 6 = 1 -> <<1, 1>>
      [] m % 6 = 2 -> <<0, 1>>
      [] m % 6 = 3 -> <<-1, 0>>
      [] m % 6 = 4 -> <<-1, -1>>
      [] m % 6 = 5 -> <<0, -1>>

\* (a + b*w)(c + d*w), with w*w = -1 - w
EMul(z, u) == <<z[1] * u[1] - z[2] * u[2], z[1] * u[2] + z[2] * u[1] - z[2] * u[2]>>

RECURSIVE ESum(_, _)
ESum(f, S) ==
    IF S = {} THEN <<0, 0>>
    ELSE LET q == CHOOSE q \in S : TRUE
             r == ESum(f, S \ {q})
         IN  <<f[q][1] + r[1], f[q][2] + r[2]>>

\* the exponent of zeta that bin <<u, v>> gives sample <<y, x>>
Twiddle(rows, cols, u, v, y, x) == (6 \div rows) * u * y + (6 \div cols) * v * x

\* cv2.dft(channel, flags=cv2.DFT_COMPLEX_OUTPUT): an array of shape
\* (rows, cols, 2); c[q][1] / d is the real part and c[q][2] / d the imaginary
\* part, the latter in units of sqrt(3)/2
cv2_dft(p, rows, cols) ==
    LET P == Pos(rows, cols)
        bin(k) == ESum([q \in P |->
                          EMul(<<p.n[q], 0>>,
                               Zeta(6 * rows * cols
                                    - Twiddle(rows, cols, k[1], k[2], q[1], q[2])))], P)
    IN  [c |-> Array([k \in P |-> LET z == bin(k) IN <<2 * z[1] - z[2], 2 * z[2]>>]),
         d |-> 2 * p.d]

\* np.fft.fftshift rolls an axis of length n by n // 2:
\* shifted[k] = x[(k - n // 2) mod n]
ShiftSource(k, rows, cols) == <<(k[1] - rows \div 2) % rows, (k[2] - cols \div 2) % cols>>

\* np.fft.fftshift(x) with no axes given rolls every axis, the last axis
\* (real / imaginary, length 2, rolled by 1) included
fftshift(s, rows, cols) ==
    [c |-> Array([k \in Pos(rows, cols) |->
                    LET src == s.c[ShiftSource(k, rows, cols)]
                    IN  <<src[2], src[1]>>]),
     d |-> s.d]

\* np.fft.ifftshift(x): the inverse rolls
ifftshift(s, rows, cols) ==
    [c |-> Array([k \in Pos(rows, cols) |->
                    LET src == s.c[<<(k[1] + rows \div 2) % rows,
                                     (k[2] + cols \div 2) % cols>>]
                    IN  <<src[2], src[1]>>]),
     d |-> s.d]

\* the inverse transform indexed [:, :, 1]: its imaginary part
cv2_idft_imag(s, rows, cols) ==
    LET P == Pos(rows, cols)
        z(k) == <<2 * s.c[k][1] + s.c[k][2], 2 * s.c[k][2]>>
        out(q) == ESum([k \in P |->
                          EMul(z(k), Zeta(Twiddle(rows, cols, k[1], k[2], q[1], q[2])))], P)
    IN  Plane([q \in P |-> out(q)[2]], 2 * s.d * rows * cols)

\* cv2.idft(x, flags=cv2.DFT_SCALE)[:, :, 0]: the real part of the scaled
\* inverse transform
cv2_idft_real(s, rows, cols) ==
    LET P == Pos(rows, cols)
        z(k) == <<2 * s.c[k][1] + s.c[k][2], 2 * s.c[k][2]>>
        out(q) == ESum([k \in P |->
                          EMul(z(k), Zeta(Twiddle(rows, cols, k[1], k[2], q[1], q[2])))], P)
    IN  Plane([q \in P |-> LET o == out(q) IN 2 * o[1] - o[2]], 4 * s.d * rows * cols)

\* int(sqrt(d2) / sqrt(m2) * scale) for 0 <= d2, 0 < m2: the largest k with
\* k*k*m2 <= scale*scale*d2, searched in lo .. hi
RECURSIVE FloorScaledRoot(_, _, _, _, _)
FloorScaledRoot(d2, m2, scale, lo, hi) ==
    IF lo = hi THEN lo
    ELSE LET mid == (lo + hi + 1) \div 2
         IN  IF mid * mid * m2 <= scale * scale * d2
             THEN FloorScaledRoot(d2, m2, scale, mid, hi)
             ELSE FloorScaledRoot(d2, m2, scale, lo, mid - 1)

\* the centre taken as (rows - 1) // 2, (cols - 1) // 2
MaskCenterLow(rows, cols) == <<(rows - 1) \div 2, (cols - 1) \div 2>>

\* center_y, center_x
MaskCenter(rows, cols) == <<rows \div 2, cols \div 2>>

\* pattern_indices: the index into the ring pattern for every cell
PatternIndices(rows, cols, pattern_size) ==
    LET c  == MaskCenter(rows, cols)
        m2 == c[1] * c[1] + c[2] * c[2]
        d2(q) == (q[1] - c[1]) * (q[1] - c[1]) + (q[2] - c[2]) * (q[2] - c[2])
    IN  Array([q \in Pos(rows, cols) |->
                 IF m2 > 0
                 THEN Max(0, Min(pattern_size - 1,
                                 FloorScaledRoot(d2(q), m2, pattern_size - 1, 0,
                                                 2 * pattern_size)))
                 ELSE 0])

\* mask = ring_pattern[pattern_indices] ** power, then mask[center] = 1.0;
\* the cell values are n[q] / d
RingMask(pattern, rows, cols, power) ==
    LET idx == PatternIndices(rows, cols, Len(pattern))
        c   == MaskCenter(rows, cols)
    IN  [n |-> Array([q \in Pos(rows, cols) |->
                        IF q = c THEN Pow(PatScale, power)
                        ELSE Pow(pattern[idx[q] + 1], power)]),
         d |-> Pow(PatScale, power)]

\* dft_shift[:, :, 0] *= mask; dft_shift[:, :, 1] *= mask
MulMask(s, mask) ==
    [c |-> Array([k \in DOMAIN s.c |-> <<s.c[k][1] * mask.n[k], s.c[k][2] * mask.n[k]>>]),
     d |-> s.d * mask.d]

\* processed_channel * original_dc, the division by current_dc left out
DcScaledByOriginal(processed, original_dc, current_dc) ==
    ScalePlane(processed, original_dc[1], original_dc[2])

\* processed_channel * (original_dc / current_dc)
DcCorrected(processed, original_dc, current_dc) ==
    LET g1 == Gcd(original_dc[1], current_dc[1])
        g2 == Gcd(original_dc[2], current_dc[2])
    IN  ScalePlane(processed,
                   (original_dc[1] \div g1) * (current_dc[2] \div g2),
                   (original_dc[2] \div g2) * (current_dc[1] \div g1))

\* self.ring_pattern after the mask is built and its centre written, had
\* the mask been a view of the pattern: the write lands in the pattern
RingPatternAfterMaskView(pattern, rows, cols) ==
    LET c == PatternIndices(rows, cols, Len(pattern))[MaskCenter(rows, cols)]
    IN  [pattern EXCEPT ![c + 1] = PatScale]

\* self.ring_pattern after mask = self.ring_pattern[pattern_indices] ** power
\* and mask[center_y, center_x] = 1.0: indexing with an index array and **
\* both build new arrays, so the write lands in the copy
RingPatternAfterMask(pattern, rows, cols) == pattern

\* the DC step without its guard: the division is always evaluated, and
\* 0 / 0 gives a plane of nan (written as zeros)
RestoreDcUnguarded(processed, original_dc, current_dc) ==
    [divided |-> TRUE,
     out |-> IF current_dc[1] # 0
             THEN ScalePlane(processed, original_dc[1] * current_dc[2],
                             original_dc[2] * current_dc[1])
             ELSE Plane([q \in DOMAIN processed.n |-> 0], 1)]

\* the DC step: if current_dc != 0, scale by original_dc / current_dc;
\* `divided` records whether the division was evaluated
RestoreDc(processed, original_dc, current_dc) ==
    IF current_dc[1] # 0
    THEN [divided |-> TRUE, out |-> DcCorrected(processed, original_dc, current_dc)]
    ELSE [divided |-> FALSE, out |-> processed]

\* one pass of the loop body of apply_ringing, with its locals
RingChannel(channel, rows, cols, power, pattern) ==
    LET original_dc == Mean(channel)
        dft_shift   == fftshift(cv2_dft(channel, rows, cols), rows, cols)
        mask        == RingMask(pattern, rows, cols, power)
        processed   == cv2_idft_real(ifftshift(MulMask(dft_shift, mask), rows, cols),
                                     rows, cols)
        current_dc  == Mean(processed)
        restored    == RestoreDc(processed, original_dc, current_dc)
    IN  [channel |-> channel, original_dc |-> original_dc, mask |-> mask,
         filtered |-> processed,
         current_dc |-> current_dc, divided |-> restored.divided, out |-> restored.out]

\* the locals of the three passes, for Y, I and Q
RingLocals(y, power, pattern) ==
    << RingChannel(y.Y, y.rows, y.cols, power, pattern),
       RingChannel(y.I, y.rows, y.cols, power, pattern),
       RingChannel(y.Q, y.rows, y.cols, power, pattern) >>

apply_ringing(y, power, pattern) ==
    LET l == RingLocals(y, power, pattern)
    IN  [rows |-> y.rows, cols |-> y.cols, Y |-> l[1].out, I |-> l[2].out, Q |-> l[3].out]

----------------------------------------------------------------------------
(* cv2.GaussianBlur and scipy.signal.lfilter *)

\* cv2.getGaussianKernel(ksize, sigma <= 0), as [k |-> weights, d |-> their
\* sum]: the fixed kernels OpenCV uses for ksize 1, 3, 5, 7, and for 9 and 11
\* exp(-x*x / (2*sigma*sigma)), sigma = 0.3*((ksize-1)*0.5 - 1) + 0.8,
\* normalised and rounded to 1/200
SmallGaussian(ksize) ==
    CASE ksize = 1 -> [k |-> <<1>>, d |-> 1]
      [] ksize = 3 -> [k |-> <<1, 2, 1>>, d |-> 4]
      [] ksize = 5 -> [k |-> <<1, 4, 6, 4, 1>>, d |-> 16]
      [] ksize = 7 -> [k |-> <<2, 7, 14, 18, 14, 7, 2>>, d |-> 64]
      [] ksize = 9 -> [k |-> <<3, 10, 24, 40, 46, 40, 24, 10, 3>>, d |-> 200]
      [] ksize = 11 -> [k |-> <<2, 5, 13, 24, 36, 40, 36, 24, 13, 5, 2>>, d |-> 200]

\* cv2.getGaussianKernel(3, 1.0): exp(-x*x/2) normalised, to two decimals
Sigma1Gaussian == [k |-> <<27, 46, 27>>, d |-> 100]

\* cv2.GaussianBlur raises cv2.error unless both sizes are odd and positive
BlurSizeOk(ksize) == ksize > 0 /\ ksize % 2 = 1

\* BORDER_REFLECT_101 (OpenCV's default border): gfedcb|abcdefgh|gfedcba
RECURSIVE Reflect101(_, _)
Reflect101(i, len) ==
    IF len = 1 THEN 0
    ELSE IF i < 0 THEN Reflect101(-i, len)
    ELSE IF i >= len THEN Reflect101(2 * (len - 1) - i, len)
    ELSE i

RECURSIVE SeqSum(_, _)
SeqSum(f, k) == IF k = 0 THEN 0 ELSE f[k] + SeqSum(f, k - 1)

\* the numerators of a separable filter: kernel kx along a row (x), ky along
\* a column (y)
Filter2D(num, rows, cols, kx, ky) ==
    LET rx == Len(kx.k) \div 2
        ry == Len(ky.k) \div 2
        row(y, x) == SeqSum([i \in 1 .. Len(kx.k) |->
                               kx.k[i] * num[<<y, Reflect101(x + i - 1 - rx, cols)>>]],
                            Len(kx.k))
    IN  Array([q \in Pos(rows, cols) |->
                 SeqSum([j \in 1 .. Len(ky.k) |->
                           ky.k[j] * row(Reflect101(q[1] + j - 1 - ry, rows), q[2])],
                        Len(ky.k))])

\* cv2.GaussianBlur(p, (width, height), 0): ksize is (width, height), so the
\* first size runs along x (within a row) and the second along y
GaussianBlur(p, rows, cols, width, height) ==
    LET kx == SmallGaussian(width)
        ky == SmallGaussian(height)
    IN  Plane(Filter2D(p.n, rows, cols, kx, ky), p.d * kx.d * ky.d)

\* lfilter(np.ones(k) / k, 1, row) on every row: the causal moving average,
\* zero before the start of the row
MovingAverageRows(p, rows, cols, k) ==
    Plane([q \in Pos(rows, cols) |->
             SeqSum([j \in 1 .. k |->
                       IF q[2] - (j - 1) >= 0 THEN p.n[<<q[1], q[2] - (j - 1)>>] ELSE 0],
                    k)],
          p.d * k)

----------------------------------------------------------------------------
(* numpy's global random generator *)

\* np.random.normal draws one value per sample and advances the generator;
\* the standard-normal values are rounded to integers and repeat with period
\* Len(NormalDraws)
NormalDraws == <<0, 1, -1, 0, 2, -1, 1, -2, 0, 1>>

StdNormal(state, i) == NormalDraws[((state + i) % Len(NormalDraws)) + 1]

Advance(state, count) == (state + count) % Len(NormalDraws)

\* np.random.normal(0, sigma, shape), sigma = sn / sd > 0
NormalPlane(state, rows, cols, sn, sd) ==
    Plane([q \in Pos(rows, cols) |-> sn * StdNormal(state, q[1] * cols + q[2])], sd)

\* cos and sin of a drawn angle, as <<5 cos, 5 sin>>: the angle is rounded to
\* one of 0, +-36.87 and +-53.13 degrees, where both are rational
Rotation(z) ==
    CASE z = 0 -> <<5, 0>>
      [] z = 1 -> <<4, 3>>
      [] z = -1 -> <<4, -3>>
      [] z = 2 -> <<3, 4>>
      [] z = -2 -> <<3, -4>>

----------------------------------------------------------------------------
(* The stages of process_frame.  Amounts are in tenths (ParamScale). *)

ParamScale == 10

apply_vhs_noise(y, noise_amount, state) ==
    IF noise_amount > 0
    THEN LET noise == GaussianBlur(NormalPlane(state, y.rows, y.cols, noise_amount,
                                               100 * ParamScale),
                                   y.rows, y.cols, 3, 3)
         IN  [y EXCEPT !.Y = AddPlanes(y.Y, noise)]
    ELSE y

\* the generator after apply_vhs_noise
RngAfterVhsNoise(y, noise_amount, state) ==
    IF noise_amount > 0 THEN Advance(state, y.rows * y.cols) ELSE state

\* the two planes after the phase rotation by the drawn angles
RotateChroma(y, state) ==
    LET P == Pos(y.rows, y.cols)
        rot(q) == Rotation(StdNormal(state, q[1] * y.cols + q[2]))
        L  == Lcm(y.I.d, y.Q.d)
        mi == L \div y.I.d
        mq == L \div y.Q.d
    IN  [y EXCEPT
           !.I = Plane([q \in P |-> y.I.n[q] * mi * rot(q)[1] - y.Q.n[q] * mq * rot(q)[2]],
                       5 * L),
           !.Q = Plane([q \in P |-> y.I.n[q] * mi * rot(q)[2] + y.Q.n[q] * mq * rot(q)[1]],
                       5 * L)]

\* apply_chroma_noise with the phase rotation applied whatever phase_noise is
apply_chroma_noise_always_rotates(y, noise_amount, phase_noise, state) ==
    LET n   == y.rows * y.cols
        sd  == 100 * ParamScale
        y1  == IF noise_amount > 0
               THEN [y EXCEPT
                       !.I = AddPlanes(y.I, GaussianBlur(
                                 NormalPlane(state, y.rows, y.cols, noise_amount, sd),
                                 y.rows, y.cols, 3, 3)),
                       !.Q = AddPlanes(y.Q, GaussianBlur(
                                 NormalPlane(Advance(state, n), y.rows, y.cols,
                                             noise_amount, sd),
                                 y.rows, y.cols, 3, 3))]
               ELSE y
        s1  == IF noise_amount > 0 THEN Advance(state, 2 * n) ELSE state
    IN  RotateChroma(y1, s1)

apply_chroma_noise(y, noise_amount, phase_noise, state) ==
    LET n   == y.rows * y.cols
        sd  == 100 * ParamScale
        y1  == IF noise_amount > 0
               THEN [y EXCEPT
                       !.I = AddPlanes(y.I, GaussianBlur(
                                 NormalPlane(state, y.rows, y.cols, noise_amount, sd),
                                 y.rows, y.cols, 3, 3)),
                       !.Q = AddPlanes(y.Q, GaussianBlur(
                                 NormalPlane(Advance(state, n), y.rows, y.cols,
                                             noise_amount, sd),
                                 y.rows, y.cols, 3, 3))]
               ELSE y
        s1  == IF noise_amount > 0 THEN Advance(state, 2 * n) ELSE state
    IN  IF phase_noise > 0 THEN RotateChroma(y1, s1) ELSE y1

RngAfterChromaNoise(y, noise_amount, phase_noise, state) ==
    Advance(state, (IF noise_amount > 0 THEN 2 * y.rows * y.cols ELSE 0)
                   + (IF phase_noise > 0 THEN y.rows * y.cols ELSE 0))

\* kernel_size = int(amount * 2) + 1, for amount > 0
BleedKernelSize(amount) == ((amount * 2) \div ParamScale) + 1

\* whether apply_color_bleeding raises (its cv2.GaussianBlur call does)
BleedRaises(amount) ==
    amount > 0 /\ BleedKernelSize(amount) > 1 /\ ~BlurSizeOk(BleedKernelSize(amount))

\* apply_color_bleeding with the luma plane filtered like the other two
apply_color_bleeding_all_planes(y, amount) ==
    IF amount > 0
    THEN LET k  == BleedKernelSize(amount)
             fy == MovingAverageRows(y.Y, y.rows, y.cols, k)
             fi == MovingAverageRows(y.I, y.rows, y.cols, k)
             fq == MovingAverageRows(y.Q, y.rows, y.cols, k)
         IN  IF k > 1
             THEN [y EXCEPT !.Y = GaussianBlur(fy, y.rows, y.cols, 1, k),
                            !.I = GaussianBlur(fi, y.rows, y.cols, 1, k),
                            !.Q = GaussianBlur(fq, y.rows, y.cols, 1, k)]
             ELSE [y EXCEPT !.Y = fy, !.I = fi, !.Q = fq]
    ELSE y

apply_color_bleeding(y, amount) ==
    IF amount > 0
    THEN LET k  == BleedKernelSize(amount)
             fi == MovingAverageRows(y.I, y.rows, y.cols, k)
             fq == MovingAverageRows(y.Q, y.rows, y.cols, k)
         IN  IF k > 1
             THEN [y EXCEPT !.I = GaussianBlur(fi, y.rows, y.cols, 1, k),
                            !.Q = GaussianBlur(fq, y.rows, y.cols, 1, k)]
             ELSE [y EXCEPT !.I = fi, !.Q = fq]
    ELSE y

\* the names of the members of VHSSpeed, after "VHS_"
SpeedNames == {"SP", "LP", "EP"}

\* the params dict after the lookup, had the resolved member been stored
\* back under "tape_speed"
ParamsWithResolvedSpeed(p) ==
    [p EXCEPT !.tape_speed = CASE p.tape_speed = "SP" -> "VHS_SP"
                               [] p.tape_speed = "LP" -> "VHS_LP"
                               [] p.tape_speed = "EP" -> "VHS_EP"]

\* the params dict after tape_speed = getattr(VHSSpeed, ...): the member is
\* bound to a local, the dict is only read
ParamsAfterLookup(p) == p

\* the kernel_size table of apply_tape_speed_effects
TapeKernelSize(speed) ==
    CASE speed = "SP" -> 3
      [] speed = "LP" -> 5
      [] speed = "EP" -> 7

\* apply_tape_speed_effects with the kernel size given as (1, kernel_size)
apply_tape_speed_vertical(y, speed) ==
    LET k == TapeKernelSize(speed)
    IN  IF k > 1
        THEN [y EXCEPT !.Y = GaussianBlur(y.Y, y.rows, y.cols, 1, k),
                       !.I = GaussianBlur(y.I, y.rows, y.cols, 1, k),
                       !.Q = GaussianBlur(y.Q, y.rows, y.cols, 1, k)]
        ELSE y

apply_tape_speed_effects(y, speed) ==
    LET k == TapeKernelSize(speed)
    IN  IF k > 1
        THEN [y EXCEPT !.Y = GaussianBlur(y.Y, y.rows, y.cols, k, 1),
                       !.I = GaussianBlur(y.I, y.rows, y.cols, k, 1),
                       !.Q = GaussianBlur(y.Q, y.rows, y.cols, k, 1)]
        ELSE y

\* the output sharpening of process_frame and its final clip and cast:
\* alpha * result + beta * blurred, beta = -(alpha - 1.0)
\* the sharpener with the weight of the blurred frame set to -alpha
SharpenBetaMinusAlpha(alpha) == -alpha

\* beta = -(alpha - 1.0)
SharpenBeta(alpha) == -(alpha - ParamScale)

Sharpen(f, alpha) ==
    IF alpha > ParamScale
    THEN LET g == Sigma1Gaussian
             beta == SharpenBeta(alpha)
             chan(c) == [q \in Pos(f.rows, f.cols) |-> f.px[q][c]]
             blurred == << Filter2D(chan(B), f.rows, f.cols, g, g),
                           Filter2D(chan(G), f.rows, f.cols, g, g),
                           Filter2D(chan(R), f.rows, f.cols, g, g) >>
             out(c, q) == (alpha * f.px[q][c] * g.d * g.d + beta * blurred[c][q])
                          \div (ParamScale * g.d * g.d)
         IN  [f EXCEPT !.px = [q \in Pos(f.rows, f.cols) |->
                                 << ClipToSample(out(B, q)), ClipToSample(out(G, q)),
                                    ClipToSample(out(R, q)) >>]]
    ELSE [f EXCEPT !.px = [q \in Pos(f.rows, f.cols) |->
                             << ClipToSample(f.px[q][B]), ClipToSample(f.px[q][G]),
                                ClipToSample(f.px[q][R]) >>]]

----------------------------------------------------------------------------
(* Inputs *)

\* self.default_params
DefaultParams ==
    [composite_preemphasis |-> 40, vhs_out_sharpen |-> 25, color_bleeding |-> 50,
     video_noise |-> 10000, chroma_noise |-> 50000, chroma_phase_noise |-> 250,
     enable_ringing |-> TRUE, ringing_power |-> 2, tape_speed |-> "SP"]

\* minimal_params of test_individual_effects: every effect disabled
MinimalParams ==
    [composite_preemphasis |-> 40, vhs_out_sharpen |-> 10, color_bleeding |-> 0,
     video_noise |-> 0, chroma_noise |-> 0, chroma_phase_noise |-> 0,
     enable_ringing |-> FALSE, ringing_power |-> 2, tape_speed |-> "SP"]

\* the parameter dicts a caller passes: minimal_params with one effect
\* changed, as effects_to_test does, and with every effect enabled
ParamChoices ==
    {MinimalParams}
    \cup {[MinimalParams EXCEPT !.enable_ringing = TRUE, !.ringing_power = p] :
            p \in {1, 2, 3}}
    \cup {[MinimalParams EXCEPT !.video_noise = a] : a \in {-10, 10000}}
    \cup {[MinimalParams EXCEPT !.chroma_noise = a] : a \in {-10, 50000}}
    \cup {[MinimalParams EXCEPT !.chroma_phase_noise = a] : a \in {-10, 250}}
    \cup {[MinimalParams EXCEPT !.color_bleeding = a] : a \in {-10, 5, 10, 15}}
    \cup {[MinimalParams EXCEPT !.vhs_out_sharpen = a] : a \in {5, 11, 25, 50}}
    \cup {[MinimalParams EXCEPT !.tape_speed = t] : t \in {"LP", "EP", "XP"}}
    \cup {[MinimalParams EXCEPT !.enable_ringing = TRUE, !.video_noise = 10000,
                                !.chroma_noise = 50000, !.chroma_phase_noise = 250,
                                !.color_bleeding = 10, !.vhs_out_sharpen = 25]}

\* pixels, as <<b, g, r>>
Gray == <<128, 128, 128>>
Black == <<0, 0, 0>>
White == <<255, 255, 255>>
Red == <<0, 0, 200>>
Cyan == <<200, 200, 0>>

Palette == {Gray, Black, White, Red, Cyan}

\* the two colours of a patterned frame; Red and Cyan have opposite I and Q
ColourPairs ==
    {<<Black, White>>, <<White, Black>>, <<Gray, Red>>, <<Red, Cyan>>, <<Cyan, Gray>>}

RowChoices == {n \in 1 .. MaxRows : n \in DftLengths}
ColChoices == {n \in 1 .. MaxCols : n \in DftLengths}

\* the frames a video of this size can hold: uniform frames, one pixel in
\* another colour, columns alternating, rows alternating
Frames(rows, cols) ==
    LET mk(px) == [rows |-> rows, cols |-> cols, px |-> px]
        P == Pos(rows, cols)
    IN  {mk([q \in P |-> c]) : c \in Palette}
        \cup {mk([q \in P |-> IF q = <<0, 0>> THEN c[1] ELSE c[2]]) : c \in ColourPairs}
        \cup {mk([q \in P |-> IF q[2] % 2 = 0 THEN c[1] ELSE c[2]]) : c \in ColourPairs}
        \cup {mk([q \in P |-> IF q[1] % 2 = 0 THEN c[1] ELSE c[2]]) : c \in ColourPairs}

IsUniformFrame(f) == \A q1, q2 \in DOMAIN f.px : f.px[q1] = f.px[q2]

\* the frames cap.read() returns in the runs of process_video: those of
\* Frames whose first pixel is gray or red
VideoFrames(rows, cols) == {f \in Frames(rows, cols) : f.px[<<0, 0>>] \in {Gray, Red}}

----------------------------------------------------------------------------
(* process_video and process_frame *)

\* the parameters after validation, defaults taking precedence
FillDefaultsOverwriting(p, defaults) ==
    [k \in (DOMAIN p) \cup (DOMAIN defaults) |->
       IF k \in DOMAIN defaults THEN defaults[k] ELSE p[k]]

\* the parameter validation of process_video: every key of default_params
\* missing from params is set to its default
FillDefaults(p, defaults) ==
    [k \in (DOMAIN p) \cup (DOMAIN defaults) |->
       IF k \in DOMAIN p THEN p[k] ELSE defaults[k]]

\* no call of generate_ring_pattern other than the one of __init__
PatternIdle == size = PatternSize /\ gen_pattern = <<>> /\ patterns = <<>>

\* main is not running: process_video and process_frame are called directly
RunIdle ==
    /\ argv = [script |-> "vhs_v2_processor.py", argc |-> 0, json_ok |-> TRUE,
               output_path |-> "out.mp4"]
    /\ console = <<>>
    /\ cap = "None"
    /\ writer = "None"
    /\ tried = <<>>
    /\ total_frames = 0
    /\ frame_count = 0
    /\ files = <<>>
    /\ calls = <<>>
    /\ exit_status = -1

\* process_frame with the luma noise added before the ringing filter
StageAfterNoiseFirst(stage) ==
    CASE stage = "bgr2yiq" -> "vhs_noise"
      [] stage = "vhs_noise" -> "ringing"
      [] stage = "ringing" -> "chroma_noise"
      [] stage = "chroma_noise" -> "color_bleeding"
      [] stage = "color_bleeding" -> "tape_speed"
      [] stage = "tape_speed" -> "yiq2bgr"
      [] stage = "yiq2bgr" -> "sharpen"
      [] stage = "sharpen" -> "return"

\* the frames handed to the encoder, had each been put before the earlier ones
out_write_first(w, k, image) == <<[k |-> k, image |-> image]>> \o w

\* out.write(processed_frame): the frame is appended to the output stream
out_write(w, k, image) == Append(w, [k |-> k, image |-> image])

\* process_frame as a function of the frame, the parameters, the ring
\* pattern and the state of the generator (when nothing raises)
process_frame(f, p, pattern, state) ==
    LET y0 == bgr2yiq(f)
        y1 == IF p.enable_ringing THEN apply_ringing(y0, p.ringing_power, pattern) ELSE y0
        y2 == apply_vhs_noise(y1, p.video_noise, state)
        s2 == RngAfterVhsNoise(y1, p.video_noise, state)
        y3 == apply_chroma_noise(y2, p.chroma_noise, p.chroma_phase_noise, s2)
        y4 == apply_color_bleeding(y3, p.color_bleeding)
        y5 == apply_tape_speed_effects(y4, p.tape_speed)
    IN  Sharpen(yiq2bgr(y5), p.vhs_out_sharpen)

\* the order of the statements of process_frame: the stage run after `stage`
StageAfter(stage) ==
    CASE stage = "bgr2yiq" -> "ringing"
      [] stage = "ringing" -> "vhs_noise"
      [] stage = "vhs_noise" -> "chroma_noise"
      [] stage = "chroma_noise" -> "color_bleeding"
      [] stage = "color_bleeding" -> "tape_speed"
      [] stage = "tape_speed" -> "yiq2bgr"
      [] stage = "yiq2bgr" -> "sharpen"
      [] stage = "sharpen" -> "return"

Init ==
    /\ PatternIdle
    /\ supplied = <<>>
    /\ RunIdle
    /\ params \in ParamChoices
    /\ default_params = DefaultParams
    /\ ring_pattern = generate_ring_pattern
    /\ rng \in 0 .. NumSeeds - 1
    /\ seed = rng
    /\ pc = "validate"
    /\ frame = NoFrame
    /\ yiq = NoYiq
    /\ result = NoFrame
    /\ trace = <<>>
    /\ ring = <<>>
    /\ stage_in = NoYiq
    /\ err = "none"
    /\ video \in {[rows |-> r, cols |-> c, len |-> n] :
                    r \in RowChoices, c \in ColChoices, n \in 0 .. MaxFrames}
    /\ decoded = 0
    /\ written = <<>>

\* process_video, lines 277-283
ValidateParams ==
    /\ pc = "validate"
    /\ params' = FillDefaults(params, default_params)
    /\ pc' = "read"
    /\ UNCHANGED <<supplied, patternVars, runVars, seed, default_params, ring_pattern, rng, frame, yiq, result, trace,
                   ring, stage_in, err, video, decoded, written>>

\* cap.read() returns a frame
ReadFrame ==
    /\ pc = "read"
    /\ decoded < video.len
    /\ \E f \in VideoFrames(video.rows, video.cols) : frame' = f
    /\ decoded' = decoded + 1
    /\ pc' = "bgr2yiq"
    /\ yiq' = NoYiq
    /\ result' = NoFrame
    /\ trace' = <<>>
    /\ ring' = <<>>
    /\ stage_in' = NoYiq
    /\ UNCHANGED <<supplied, patternVars, runVars, seed, params, default_params, ring_pattern, rng, err, video, written>>

\* cap.read() returns ret = False: the loop ends
EndOfVideo ==
    /\ pc = "read"
    /\ decoded = video.len
    /\ pc' = "done"
    /\ UNCHANGED <<supplied, patternVars, runVars, seed, params, default_params, ring_pattern, rng, frame, yiq, result, trace,
                   ring, stage_in, err, video, decoded, written>>

\* yiq = self.bgr2yiq(frame)
ForwardColor ==
    /\ pc = "bgr2yiq"
    /\ yiq' = bgr2yiq(frame)
    /\ trace' = Append(trace, "bgr2yiq")
    /\ pc' = StageAfter("bgr2yiq")
    /\ UNCHANGED <<supplied, patternVars, runVars, seed, params, default_params, ring_pattern, rng, frame, result, ring,
                   stage_in, err, video, decoded, written>>

\* if params["enable_ringing"]: yiq = self.apply_ringing(yiq, power)
Ringing ==
    /\ pc = "ringing"
    /\ IF params.enable_ringing
       THEN /\ ring' = RingLocals(yiq, params.ringing_power, ring_pattern)
            /\ yiq' = apply_ringing(yiq, params.ringing_power, ring_pattern)
            /\ ring_pattern' = RingPatternAfterMask(ring_pattern, yiq.rows, yiq.cols)
            /\ stage_in' = yiq
            /\ trace' = Append(trace, "ringing")
       ELSE UNCHANGED <<ring, yiq, ring_pattern, stage_in, trace>>
    /\ pc' = StageAfter("ringing")
    /\ UNCHANGED <<supplied, patternVars, runVars, seed, params, default_params, rng, frame, result, err, video,
                   decoded, written>>

\* yiq = self.apply_vhs_noise(yiq, params["video_noise"])
LumaNoise ==
    /\ pc = "vhs_noise"
    /\ yiq' = apply_vhs_noise(yiq, params.video_noise, rng)
    /\ rng' = RngAfterVhsNoise(yiq, params.video_noise, rng)
    /\ stage_in' = yiq
    /\ trace' = Append(trace, "vhs_noise")
    /\ pc' = StageAfter("vhs_noise")
    /\ UNCHANGED <<supplied, patternVars, runVars, seed, params, default_params, ring_pattern, frame, result, ring, err, video,
                   decoded, written>>

\* yiq = self.apply_chroma_noise(yiq, chroma_noise, chroma_phase_noise)
ChromaNoise ==
    /\ pc = "chroma_noise"
    /\ yiq' = apply_chroma_noise(yiq, params.chroma_noise, params.chroma_phase_noise, rng)
    /\ rng' = RngAfterChromaNoise(yiq, params.chroma_noise, params.chroma_phase_noise, rng)
    /\ stage_in' = yiq
    /\ trace' = Append(trace, "chroma_noise")
    /\ pc' = StageAfter("chroma_noise")
    /\ UNCHANGED <<supplied, patternVars, runVars, seed, params, default_params, ring_pattern, frame, result, ring, err, video,
                   decoded, written>>

\* yiq = self.apply_color_bleeding(yiq, params["color_bleeding"]); an even
\* kernel size makes cv2.GaussianBlur raise
ColorBleed ==
    /\ pc = "color_bleeding"
    /\ stage_in' = yiq
    /\ trace' = Append(trace, "color_bleeding")
    /\ IF BleedRaises(params.color_bleeding)
       THEN /\ err' = "cv2.error"
            /\ pc' = "failed"
            /\ UNCHANGED yiq
       ELSE /\ yiq' = apply_color_bleeding(yiq, params.color_bleeding)
            /\ pc' = StageAfter("color_bleeding")
            /\ UNCHANGED err
    /\ UNCHANGED <<supplied, patternVars, runVars, seed, params, default_params, ring_pattern, rng, frame, result, ring, video,
                   decoded, written>>

\* tape_speed = getattr(VHSSpeed, f"VHS_{params['tape_speed']}"), which raises
\* AttributeError for a name VHSSpeed does not have; then
\* yiq = self.apply_tape_speed_effects(yiq, tape_speed)
TapeSpeed ==
    /\ pc = "tape_speed"
    /\ IF params.tape_speed \in SpeedNames
       THEN /\ params' = ParamsAfterLookup(params)
            /\ yiq' = apply_tape_speed_effects(yiq, params.tape_speed)
            /\ stage_in' = yiq
            /\ trace' = Append(trace, "tape_speed")
            /\ pc' = StageAfter("tape_speed")
            /\ UNCHANGED err
       ELSE /\ err' = "AttributeError"
            /\ pc' = "failed"
            /\ UNCHANGED <<params, yiq, stage_in, trace>>
    /\ UNCHANGED <<supplied, patternVars, runVars, seed, default_params, ring_pattern, rng, frame, result, ring, video,
                   decoded, written>>

\* result = self.yiq2bgr(yiq)
InverseColor ==
    /\ pc = "yiq2bgr"
    /\ result' = yiq2bgr(yiq)
    /\ trace' = Append(trace, "yiq2bgr")
    /\ pc' = StageAfter("yiq2bgr")
    /\ UNCHANGED <<supplied, patternVars, runVars, seed, params, default_params, ring_pattern, rng, frame, yiq, ring, stage_in,
                   err, video, decoded, written>>

\* the sharpening block and the final clip and cast, lines 216-226
OutputSharpen ==
    /\ pc = "sharpen"
    /\ result' = Sharpen(result, params.vhs_out_sharpen)
    /\ trace' = Append(trace, "sharpen")
    /\ pc' = StageAfter("sharpen")
    /\ UNCHANGED <<supplied, patternVars, runVars, seed, params, default_params, ring_pattern, rng, frame, yiq, ring, stage_in,
                   err, video, decoded, written>>

\* out.write(processed_frame)
WriteFrame ==
    /\ pc = "return"
    /\ written' = out_write(written, decoded, result)
    /\ pc' = "read"
    /\ UNCHANGED <<supplied, patternVars, runVars, seed, params, default_params, ring_pattern, rng, frame, yiq, result, trace,
                   ring, stage_in, err, video, decoded>>

Next ==
    \/ ValidateParams
    \/ ReadFrame
    \/ EndOfVideo
    \/ ForwardColor
    \/ Ringing
    \/ LumaNoise
    \/ ChromaNoise
    \/ ColorBleed
    \/ TapeSpeed
    \/ InverseColor
    \/ OutputSharpen
    \/ WriteFrame

Spec == Init /\ [][Next]_vars

----------------------------------------------------------------------------
(* process_frame called on its own, as test_individual_effects does *)

FrameInit ==
    /\ PatternIdle
    /\ supplied = <<>>
    /\ RunIdle
    /\ params \in ParamChoices
    /\ default_params = DefaultParams
    /\ ring_pattern = generate_ring_pattern
    /\ rng \in 0 .. NumSeeds - 1
    /\ seed = rng
    /\ pc = "bgr2yiq"
    /\ \E r \in RowChoices, c \in ColChoices :
          /\ frame \in Frames(r, c)
          /\ video = [rows |-> r, cols |-> c, len |-> 1]
    /\ yiq = NoYiq
    /\ result = NoFrame
    /\ trace = <<>>
    /\ ring = <<>>
    /\ stage_in = NoYiq
    /\ err = "none"
    /\ decoded = 1
    /\ written = <<>>

\* return np.clip(result, 0, 255).astype(np.uint8), to the caller
ReturnFrame ==
    /\ pc = "return"
    /\ pc' = "returned"
    /\ UNCHANGED <<supplied, patternVars, runVars, seed, params, default_params, ring_pattern, rng, frame, yiq, result, trace,
                   ring, stage_in, err, video, decoded, written>>

FrameNext ==
    \/ ForwardColor
    \/ Ringing
    \/ LumaNoise
    \/ ChromaNoise
    \/ ColorBleed
    \/ TapeSpeed
    \/ InverseColor
    \/ OutputSharpen
    \/ ReturnFrame

FrameSpec == FrameInit /\ [][FrameNext]_vars

----------------------------------------------------------------------------
(* bgr2yiq followed by yiq2bgr, as test_brightness_comparison.py does *)

Levels == {0, 1, 64, 127, 128, 129, 192, 254, 255}

ColorInit ==
    /\ PatternIdle
    /\ supplied = <<>>
    /\ RunIdle
    /\ params = MinimalParams
    /\ default_params = DefaultParams
    /\ ring_pattern = generate_ring_pattern
    /\ rng = 0
    /\ seed = rng
    /\ pc = "forward"
    /\ \E b \in Levels, g \in Levels, r \in Levels :
          frame = [rows |-> 1, cols |-> 1, px |-> [q \in Pos(1, 1) |-> <<b, g, r>>]]
    /\ video = [rows |-> 1, cols |-> 1, len |-> 1]
    /\ yiq = NoYiq
    /\ result = NoFrame
    /\ trace = <<>>
    /\ ring = <<>>
    /\ stage_in = NoYiq
    /\ err = "none"
    /\ decoded = 1
    /\ written = <<>>

\* yiq_ours = our_bgr2yiq(test_img)
RoundTripForward ==
    /\ pc = "forward"
    /\ yiq' = bgr2yiq(frame)
    /\ pc' = "inverse"
    /\ UNCHANGED <<supplied, patternVars, runVars, seed, params, default_params, ring_pattern, rng, frame, result, trace, ring,
                   stage_in, err, video, decoded, written>>

\* result_ours = our_yiq2bgr(yiq_ours)
RoundTripInverse ==
    /\ pc = "inverse"
    /\ result' = yiq2bgr(yiq)
    /\ pc' = "round_trip_done"
    /\ UNCHANGED <<supplied, patternVars, runVars, seed, params, default_params, ring_pattern, rng, frame, yiq, trace, ring,
                   stage_in, err, video, decoded, written>>

ColorNext == RoundTripForward \/ RoundTripInverse

ColorSpec == ColorInit /\ [][ColorNext]_vars

----------------------------------------------------------------------------
(* apply_tape_speed_effects on its own, on striped planes *)

\* frames of vertical stripes one column wide, in two alternating colours
StripeFrames(rows, cols) ==
    {[rows |-> rows, cols |-> cols,
      px |-> [q \in Pos(rows, cols) |-> IF q[2] % 2 = 0 THEN c[1] ELSE c[2]]] :
        c \in ColourPairs}

TapeInit ==
    /\ PatternIdle
    /\ supplied = <<>>
    /\ RunIdle
    /\ params \in {[MinimalParams EXCEPT !.tape_speed = t] : t \in SpeedNames}
    /\ default_params = DefaultParams
    /\ ring_pattern = generate_ring_pattern
    /\ rng = 0
    /\ seed = rng
    /\ pc = "tape_input"
    /\ \E r \in 1 .. MaxRows, c \in 2 .. MaxStripeCols :
          /\ frame \in StripeFrames(r, c)
          /\ video = [rows |-> r, cols |-> c, len |-> 1]
    /\ yiq = NoYiq
    /\ result = NoFrame
    /\ trace = <<>>
    /\ ring = <<>>
    /\ stage_in = NoYiq
    /\ err = "none"
    /\ decoded = 1
    /\ written = <<>>

\* the planes of the test pattern
TapeForward ==
    /\ pc = "tape_input"
    /\ yiq' = bgr2yiq(frame)
    /\ pc' = "tape_ready"
    /\ UNCHANGED <<supplied, patternVars, runVars, seed, params, default_params, ring_pattern, rng, frame, result, trace,
                   ring, stage_in, err, video, decoded, written>>

\* apply_tape_speed_effects(yiq, getattr(VHSSpeed, ...))
TapeApply ==
    /\ pc = "tape_ready"
    /\ yiq' = apply_tape_speed_effects(yiq, params.tape_speed)
    /\ stage_in' = yiq
    /\ pc' = "tape_done"
    /\ UNCHANGED <<supplied, patternVars, runVars, seed, params, default_params, ring_pattern, rng, frame, result, trace,
                   ring, err, video, decoded, written>>

TapeNext == TapeForward \/ TapeApply

TapeSpec == TapeInit /\ [][TapeNext]_vars

-----------------------------------------------------------------------------
(* generate_ring_pattern called with sizes other than the default *)

\* sin(4x) exp(-x/4) on x = linspace(0, 2 pi, size), sizes 2..14, as float64
\* computes it.  Row size - 1 is in units of 1/1000; for sizes 2, 3, 5 and 9
\* every 4x is a multiple of pi, the sines are rounding residues of about
\* 1e-16, and the row is in units of its largest magnitude / 1000 (the
\* min-max normalisation that consumes the row is invariant under the unit)
RingEnvelope ==
    << <<0, -1000>>,
       <<0, -1000, -912>>,
       <<0, 513, -304, 0>>,
       <<0, -731, -987, -1000, -900>>,
       <<0, -695, -314, 229, 271, 0>>,
       <<0, -667, 513, 0, -304, 234, 0>>,
       <<0, -347, 499, -497, 397, -255, 113, 0>>,
       <<0, 439, -721, 889, -974, 1000, -986, 945, -888>>,
       <<0, 287, -453, 513, -490, 411, -304, 189, -85, 0>>,
       <<0, 502, -695, 594, -314, 0, 229, -317, 271, -143, 0>>,
       <<0, 655, -744, 352, 159, -445, 386, -104, -172, 274, -181, 0>>,
       <<0, 760, -667, 0, 513, -450, 0, 346, -304, 0, 234, -205, 0>>,
       <<0, 829, -521, -323, 612, -131, -399, 353, 91, -335, 139, 176, -219, 0>> >>

\* sin(8x) exp(-x/2) on the same grid, in units of 1/OvertoneScale
RingOvertone ==
    << <<0, 0>>,
       <<0, 0, 0>>,
       <<0, -304, 107, 0>>,
       <<0, 0, 0, 0, 0>>,
       <<0, -314, 271, -144, 48, 0>>,
       <<0, 513, -304, 0, 107, -63, 0>>,
       <<0, 499, 397, 113, -72, -103, -53, 0>>,
       <<0, 0, 0, 0, 0, 0, 0, 0, 0>>,
       <<0, -453, -490, -304, -85, 60, 107, 86, 39, 0>>,
       <<0, -695, -314, 229, 271, 0, -144, -65, 48, 56, 0>>,
       <<0, -744, 159, 386, -172, -181, 136, 73, -93, -22, 57, 0>>,
       <<0, -667, 513, 0, -304, 234, 0, -139, 107, 0, -63, 49, 0>>,
       <<0, -521, 612, -399, 91, 139, -219, 172, -67, -27, 73, -70, 36, 0>> >>

OvertoneScale == 1000

\* the weight 0.3 of the overtone, as OvertoneWeight / 10
OvertoneWeight == 3

\* a one-dimensional float array: the values v[i] / d; d = 0 stands for an
\* array of NaN (0 / 0)
SeqMin(v) == CHOOSE m \in {v[i] : i \in DOMAIN v} : \A i \in DOMAIN v : m <= v[i]

SeqMax(v) == CHOOSE m \in {v[i] : i \in DOMAIN v} : \A i \in DOMAIN v : m >= v[i]

\* (pattern - pattern.min()) without the division
MinMaxShiftOnly(p) ==
    LET mn == SeqMin(p.v)
    IN  [v |-> [i \in DOMAIN p.v |-> p.v[i] - mn], d |-> p.d]

\* (pattern - pattern.min()) / (pattern.max() - pattern.min())
MinMaxNormalise(p) ==
    LET mn == SeqMin(p.v)
        mx == SeqMax(p.v)
    IN  [v |-> [i \in DOMAIN p.v |-> p.v[i] - mn], d |-> mx - mn]

\* pattern += 0.3 * np.sin(x * 8) * np.exp(-x/2)
AddOvertone(p, n) ==
    [v |-> [i \in DOMAIN p.v |->
              10 * OvertoneScale * p.v[i] + OvertoneWeight * RingOvertone[n - 1][i] * p.d],
     d |-> 10 * OvertoneScale * p.d]

\* the spacing of float32 just below 1 is 2^-24
Float32Scale == 16777216

\* pattern.astype(np.float32): each value rounded to the float32 grid
AsFloat32(p) ==
    IF p.d = 0 THEN p
    ELSE [v |-> [i \in DOMAIN p.v |->
                   IF p.v[i] = p.d THEN Float32Scale
                   ELSE LET h == MulDivMod(Float32Scale, p.v[i], p.d)
                        IN  h[1] + (IF 2 * h[2] >= p.d THEN 1 ELSE 0)],
          d |-> Float32Scale]

PatternInit ==
    /\ params = MinimalParams
    /\ default_params = DefaultParams
    /\ ring_pattern = generate_ring_pattern
    /\ rng \in 0 .. NumSeeds - 1
    /\ seed = rng
    /\ pc = "call"
    /\ frame = NoFrame
    /\ yiq = NoYiq
    /\ result = NoFrame
    /\ trace = <<>>
    /\ ring = <<>>
    /\ stage_in = NoYiq
    /\ err = "none"
    /\ video = [rows |-> 1, cols |-> 1, len |-> 0]
    /\ decoded = 0
    /\ written = <<>>
    /\ PatternIdle
    /\ supplied = <<>>
    /\ RunIdle

\* a call generate_ring_pattern(n); x = np.linspace(0, 2*np.pi, size)
PatternCall ==
    /\ pc = "call"
    /\ Len(patterns) < 2
    /\ \E n \in 2 .. MaxPatternSize : size' = n
    /\ gen_pattern' = <<>>
    /\ pc' = "envelope"
    /\ UNCHANGED <<supplied, params, default_params, ring_pattern, rng, seed, frame, yiq, result,
                   trace, ring, stage_in, err, video, decoded, written, patterns, runVars>>

\* pattern = np.sin(x * 4) * np.exp(-x/4)
PatternEnvelope ==
    /\ pc = "envelope"
    /\ gen_pattern' = [v |-> RingEnvelope[size - 1], d |-> OvertoneScale]
    /\ pc' = "normalise"
    /\ UNCHANGED <<supplied, params, default_params, ring_pattern, rng, seed, frame, yiq, result,
                   trace, ring, stage_in, err, video, decoded, written, size, patterns, runVars>>

PatternNormalise ==
    /\ pc = "normalise"
    /\ gen_pattern' = MinMaxNormalise(gen_pattern)
    /\ pc' = "overtone"
    /\ UNCHANGED <<supplied, params, default_params, ring_pattern, rng, seed, frame, yiq, result,
                   trace, ring, stage_in, err, video, decoded, written, size, patterns, runVars>>

PatternOvertone ==
    /\ pc = "overtone"
    /\ gen_pattern' = AddOvertone(gen_pattern, size)
    /\ pc' = "normalise_again"
    /\ UNCHANGED <<supplied, params, default_params, ring_pattern, rng, seed, frame, yiq, result,
                   trace, ring, stage_in, err, video, decoded, written, size, patterns, runVars>>

PatternNormaliseAgain ==
    /\ pc = "normalise_again"
    /\ gen_pattern' = MinMaxNormalise(gen_pattern)
    /\ pc' = "astype"
    /\ UNCHANGED <<supplied, params, default_params, ring_pattern, rng, seed, frame, yiq, result,
                   trace, ring, stage_in, err, video, decoded, written, size, patterns, runVars>>

\* return pattern.astype(np.float32)
PatternReturn ==
    /\ pc = "astype"
    /\ patterns' = Append(patterns, AsFloat32(gen_pattern))
    /\ pc' = "call"
    /\ UNCHANGED <<supplied, params, default_params, ring_pattern, rng, seed, frame, yiq, result,
                   trace, ring, stage_in, err, video, decoded, written, size, gen_pattern, runVars>>

PatternNext ==
    \/ PatternCall
    \/ PatternEnvelope
    \/ PatternNormalise
    \/ PatternOvertone
    \/ PatternNormaliseAgain
    \/ PatternReturn

PatternSpec == PatternInit /\ [][PatternNext]_vars

----------------------------------------------------------------------------
(* main and process_video: a run of the command line *)

\* codecs_to_try with mp4v tried first
CodecsMp4vFirst == <<"mp4v", "H264", "MJPG", "XVID">>

\* codecs_to_try, in order
Codecs == <<"H264", "MJPG", "XVID", "mp4v">>

\* temp_output = output_path.replace('.mp4', '_temp.mp4')
TempOutput(output_path) ==
    IF output_path = "out.mp4" THEN "out_temp.mp4" ELSE output_path

\* the JSON objects handed over as third argument
JsonParams ==
    { <<>>,
      [tape_speed |-> "LP"],
      [tape_speed |-> "XP", enable_ringing |-> FALSE],
      [vhs_out_sharpen |-> 10, video_noise |-> 0, color_bleeding |-> 5],
      MinimalParams }

\* a printed line; PROGRESS lines carry their value
Line(tag) == [tag |-> tag, n |-> 0]

Progress(n) == [tag |-> "PROGRESS", n |-> n]

\* int((frame_count / total_frames) * 80), for total_frames > 0
ProgressValue(count, total) == (count * 80) \div total

RunInit ==
    /\ params = <<>>
    /\ default_params = DefaultParams
    /\ ring_pattern = generate_ring_pattern
    /\ rng = 0
    /\ seed = 0
    /\ pc = "main"
    /\ frame = NoFrame
    /\ yiq = NoYiq
    /\ result = NoFrame
    /\ trace = <<>>
    /\ ring = <<>>
    /\ stage_in = NoYiq
    /\ err = "none"
    /\ video \in {[rows |-> 1, cols |-> 1, len |-> n] : n \in 0 .. MaxFrames}
    /\ decoded = 0
    /\ written = <<>>
    /\ PatternIdle
    /\ supplied = <<>>
    /\ argv \in {[script |-> "vhs_v2_processor.py", argc |-> a, json_ok |-> j,
                  output_path |-> o] :
                   a \in {2, 3, 4}, j \in BOOLEAN, o \in {"out.mp4", "out.avi"}}
    /\ console = <<>>
    /\ cap = "None"
    /\ writer = "None"
    /\ tried = <<>>
    /\ total_frames = 0
    /\ frame_count = 0
    /\ files = [f \in {argv.output_path, TempOutput(argv.output_path)} |-> "absent"]
    /\ calls = <<>>
    /\ exit_status = -1

\* main up to the creation of the processor: usage, JSON parsing, input check
MainArgs ==
    /\ pc = "main"
    /\ \/ /\ argv.argc < 3
          /\ console' = Append(console, Line("Usage"))
          /\ exit_status' = 1
          /\ pc' = "exited"
          /\ UNCHANGED params
       \/ /\ argv.argc > 3 /\ ~argv.json_ok
          /\ console' = Append(console, Line("ERROR"))
          /\ exit_status' = 1
          /\ pc' = "exited"
          /\ UNCHANGED params
       \/ /\ argv.argc >= 3 /\ (argv.argc > 3 => argv.json_ok)
          /\ \E exists \in BOOLEAN :
               IF exists
               THEN /\ IF argv.argc > 3 THEN params' \in JsonParams ELSE UNCHANGED params
                    /\ pc' = "start"
                    /\ UNCHANGED <<console, exit_status>>
               ELSE /\ console' = Append(console, Line("ERROR"))
                    /\ exit_status' = 1
                    /\ pc' = "exited"
                    /\ UNCHANGED params
    /\ UNCHANGED <<supplied, patternVars, frameVars, default_params, err, video, decoded, written,
                   argv, cap, writer, tried, total_frames, frame_count, files, calls>>

\* print("STARTING") and the call of process_video
MainStart ==
    /\ pc = "start"
    /\ console' = Append(console, Line("STARTING"))
    /\ pc' = "validate"
    /\ UNCHANGED <<supplied, patternVars, frameVars, params, default_params, err, video, decoded,
                   written, argv, cap, writer, tried, total_frames, frame_count, files,
                   calls, exit_status>>

\* params is None (no third argument): a copy of the defaults; then the
\* validation loop
RunValidateParams ==
    /\ pc = "validate"
    /\ params' = IF argv.argc > 3 THEN FillDefaults(params, default_params)
                 ELSE FillDefaults(default_params, default_params)
    /\ pc' = "open"
    /\ UNCHANGED <<supplied, patternVars, frameVars, default_params, err, video, decoded, written,
                   runVars>>

\* cap = cv2.VideoCapture(input_path)
OpenCapture ==
    /\ pc = "open"
    /\ \E opened \in BOOLEAN :
         IF opened
         THEN cap' = "open" /\ pc' = "properties" /\ UNCHANGED err
         ELSE cap' = "None" /\ pc' = "raised" /\ err' = "Failed to open input video"
    /\ UNCHANGED <<supplied, patternVars, frameVars, params, default_params, video, decoded,
                   written, argv, console, writer, tried, total_frames, frame_count, files,
                   calls, exit_status>>

\* the properties of the capture and the two lines printed about them
GetProperties ==
    /\ pc = "properties"
    /\ total_frames' \in 0 .. MaxReported
    /\ console' = console \o <<Line("Processing video"), Line("VHS v2 parameters")>>
    /\ pc' = "codec"
    /\ UNCHANGED <<supplied, patternVars, frameVars, params, default_params, err, video, decoded,
                   written, argv, cap, writer, tried, frame_count, files, calls,
                   exit_status>>

\* one iteration of the loop over codecs_to_try
TryCodec ==
    /\ pc = "codec"
    /\ Len(tried) < Len(Codecs)
    /\ tried' = Append(tried, Codecs[Len(tried) + 1])
    /\ \E outcome \in {"opened", "closed", "raised"} :
         CASE outcome = "opened" ->
                /\ writer' = "open"
                /\ files' = [files EXCEPT ![TempOutput(argv.output_path)] = "opencv"]
                /\ console' = Append(console, Line("Using codec"))
                /\ pc' = "loop"
           [] outcome = "closed" ->
                /\ writer' = "released"
                /\ UNCHANGED <<files, console, pc>>
           [] outcome = "raised" ->
                /\ UNCHANGED <<writer, files, console, pc>>
    /\ UNCHANGED <<supplied, patternVars, frameVars, params, default_params, err, video, decoded,
                   written, argv, cap, total_frames, frame_count, calls, exit_status>>

\* if not out or not out.isOpened(): raise
NoCodec ==
    /\ pc = "codec"
    /\ Len(tried) = Len(Codecs)
    /\ err' = "Failed to initialize video writer with any codec"
    /\ pc' = "raised"
    /\ UNCHANGED <<supplied, patternVars, frameVars, params, default_params, video, decoded,
                   written, runVars>>

\* one iteration of the frame loop: read, process_frame, write, progress
RunFrame ==
    /\ pc = "loop"
    /\ decoded < video.len
    /\ decoded' = decoded + 1
    /\ IF params.tape_speed \notin SpeedNames \/ BleedRaises(params.color_bleeding)
       THEN /\ err' = (IF BleedRaises(params.color_bleeding) THEN "cv2.error"
                       ELSE "AttributeError")
            /\ pc' = "finally"
            /\ UNCHANGED <<written, frame_count, console>>
       ELSE /\ written' = out_write(written, decoded', NoFrame)
            /\ frame_count' = frame_count + 1
            /\ IF total_frames = 0
               THEN /\ err' = "ZeroDivisionError"
                    /\ pc' = "finally"
                    /\ UNCHANGED console
               ELSE /\ console' = Append(console,
                                         Progress(ProgressValue(frame_count', total_frames)))
                    /\ UNCHANGED <<err, pc>>
    /\ UNCHANGED <<supplied, patternVars, frameVars, params, default_params, video, argv, cap,
                   writer, tried, total_frames, files, calls, exit_status>>

\* cap.read() returns no frame: break
EndOfFrames ==
    /\ pc = "loop"
    /\ decoded = video.len
    /\ pc' = "finally"
    /\ UNCHANGED <<supplied, patternVars, frameVars, params, default_params, err, video, decoded,
                   written, runVars>>

\* finally: cap.release(); out.release()
Finally ==
    /\ pc = "finally"
    /\ cap' = "released"
    /\ writer' = "released"
    /\ pc' = IF err = "none" THEN "post" ELSE "raised"
    /\ UNCHANGED <<supplied, patternVars, frameVars, params, default_params, err, video, decoded,
                   written, argv, console, tried, total_frames, frame_count, files, calls,
                   exit_status>>

\* PROGRESS:85 and optimize_with_ffmpeg(temp_output, output_path); ffmpeg
\* refuses an output that is its input
Optimize ==
    /\ pc = "post"
    /\ LET temp == TempOutput(argv.output_path)
           printed == console \o <<Progress(85), Line("Post-processing video")>>
       IN  \E outcome \in {"ok", "missing", "failed"} :
             /\ outcome = "ok" => temp # argv.output_path
             /\ calls' = Append(calls, [call |-> "ffmpeg", outcome |-> outcome])
             /\ CASE outcome = "ok" ->
                       /\ files' = [files EXCEPT ![argv.output_path] = "ffmpeg"]
                       /\ console' = printed
                       /\ pc' = "remove"
                  [] outcome = "missing" ->
                       /\ console' = Append(printed, Line("WARNING"))
                       /\ pc' = "rename"
                       /\ UNCHANGED files
                  [] outcome = "failed" ->
                       /\ \E partial \in BOOLEAN :
                            files' = IF partial /\ temp # argv.output_path
                                     THEN [files EXCEPT ![argv.output_path] = "partial"]
                                     ELSE files
                       /\ console' = Append(printed, Line("WARNING"))
                       /\ pc' = "rename"
    /\ UNCHANGED <<supplied, patternVars, frameVars, params, default_params, err, video, decoded,
                   written, argv, cap, writer, tried, total_frames, frame_count,
                   exit_status>>

\* os.remove(temp_output), its failure ignored; PROGRESS:95
RemoveTemp ==
    /\ pc = "remove"
    /\ \E removed \in BOOLEAN :
         /\ calls' = Append(calls, [call |-> "remove",
                                    outcome |-> IF removed THEN "ok" ELSE "failed"])
         /\ files' = IF removed
                     THEN [files EXCEPT ![TempOutput(argv.output_path)] = "absent"]
                     ELSE files
    /\ console' = Append(console, Progress(95))
    /\ pc' = "validate_output"
    /\ UNCHANGED <<supplied, patternVars, frameVars, params, default_params, err, video, decoded,
                   written, argv, cap, writer, tried, total_frames, frame_count,
                   exit_status>>

\* the fallback with a failing os.rename ignored, as a failing os.remove is
RenameTempIgnoringFailure ==
    /\ pc = "rename"
    /\ LET temp == TempOutput(argv.output_path) IN
       \E renamed \in BOOLEAN :
         /\ calls' = Append(calls, [call |-> "rename",
                                    outcome |-> IF renamed THEN "ok" ELSE "failed"])
         /\ files' = IF renamed
                     THEN [f \in DOMAIN files |->
                             IF f = argv.output_path THEN files[temp] ELSE "absent"]
                     ELSE files
    /\ console' = Append(console, Progress(95))
    /\ pc' = "validate_output"
    /\ UNCHANGED <<supplied, patternVars, frameVars, params, default_params, err, video, decoded,
                   written, argv, cap, writer, tried, total_frames, frame_count,
                   exit_status>>

\* os.rename(temp_output, output_path); PROGRESS:95
RenameTemp ==
    /\ pc = "rename"
    /\ LET temp == TempOutput(argv.output_path) IN
       \E renamed \in BOOLEAN :
         /\ calls' = Append(calls, [call |-> "rename",
                                    outcome |-> IF renamed THEN "ok" ELSE "failed"])
         /\ IF renamed
            THEN /\ files' = [f \in DOMAIN files |->
                                IF f = argv.output_path THEN files[temp] ELSE "absent"]
                 /\ console' = Append(console, Progress(95))
                 /\ pc' = "validate_output"
                 /\ UNCHANGED err
            ELSE /\ err' = "Failed to finalize output file"
                 /\ pc' = "raised"
                 /\ UNCHANGED <<files, console>>
    /\ UNCHANGED <<supplied, patternVars, frameVars, params, default_params, video, decoded,
                   written, argv, cap, writer, tried, total_frames, frame_count,
                   exit_status>>

\* validate_video(output_path), PROGRESS:100 and COMPLETED
ValidateOutput ==
    /\ pc = "validate_output"
    /\ \E valid \in BOOLEAN :
         /\ files[argv.output_path] = "absent" => ~valid
         /\ calls' = Append(calls, [call |-> "validate_video",
                                    outcome |-> IF valid THEN "ok" ELSE "failed"])
         /\ IF valid
            THEN /\ console' = console \o <<Progress(100), Line("COMPLETED")>>
                 /\ pc' = "completed"
                 /\ UNCHANGED err
            ELSE /\ err' = "Generated video failed validation"
                 /\ pc' = "raised"
                 /\ UNCHANGED console
    /\ UNCHANGED <<supplied, patternVars, frameVars, params, default_params, video, decoded,
                   written, argv, cap, writer, tried, total_frames, frame_count, files,
                   exit_status>>

\* the exception handler of main, had it left with status 0
MainExceptExitZero ==
    /\ pc = "raised"
    /\ console' = Append(console, Line("ERROR"))
    /\ exit_status' = 0
    /\ pc' = "exited"
    /\ UNCHANGED <<supplied, patternVars, frameVars, params, default_params, err, video, decoded,
                   written, argv, cap, writer, tried, total_frames, frame_count, files,
                   calls>>

\* except Exception as e: print ERROR, sys.exit(1)
MainExcept ==
    /\ pc = "raised"
    /\ console' = Append(console, Line("ERROR"))
    /\ exit_status' = 1
    /\ pc' = "exited"
    /\ UNCHANGED <<supplied, patternVars, frameVars, params, default_params, err, video, decoded,
                   written, argv, cap, writer, tried, total_frames, frame_count, files,
                   calls>>

\* process_video returned: main ends
MainReturn ==
    /\ pc = "completed"
    /\ exit_status' = 0
    /\ pc' = "exited"
    /\ UNCHANGED <<supplied, patternVars, frameVars, params, default_params, err, video, decoded,
                   written, argv, console, cap, writer, tried, total_frames, frame_count,
                   files, calls>>

RunNext ==
    \/ MainArgs
    \/ MainStart
    \/ RunValidateParams
    \/ OpenCapture
    \/ GetProperties
    \/ TryCodec
    \/ NoCodec
    \/ RunFrame
    \/ EndOfFrames
    \/ Finally
    \/ Optimize
    \/ RemoveTemp
    \/ RenameTemp
    \/ ValidateOutput
    \/ MainExcept
    \/ MainReturn

RunSpec == RunInit /\ [][RunNext]_vars

----------------------------------------------------------------------------
(* The post-processing of trails_v2_processor.py, gsl_v1_processor.py and  *)
(* upscale_processor.py: their optimize_with_ffmpeg methods are the same   *)
(* text, and so is the code of process_video after the frame loop          *)

FfmpegScripts == {"trails_v2_processor.py", "gsl_v1_processor.py", "upscale_processor.py"}

\* validate_video: the file opens and its first frames can be read
IsReadable(content) == content \in {"opencv", "ffmpeg"}

FfmpegInit ==
    /\ params = MinimalParams
    /\ default_params = DefaultParams
    /\ ring_pattern = generate_ring_pattern
    /\ rng = 0
    /\ seed = 0
    /\ pc = "loop"
    /\ frame = NoFrame
    /\ yiq = NoYiq
    /\ result = NoFrame
    /\ trace = <<>>
    /\ ring = <<>>
    /\ stage_in = NoYiq
    /\ err = "none"
    /\ video \in {[rows |-> 1, cols |-> 1, len |-> n] : n \in 0 .. MaxFrames}
    /\ decoded = 0
    /\ written = <<>>
    /\ PatternIdle
    /\ supplied = <<>>
    /\ argv \in {[script |-> n, argc |-> 3, json_ok |-> TRUE, output_path |-> o] :
                   n \in FfmpegScripts, o \in {"out.mp4", "out.avi"}}
    /\ console = <<Line("STARTING")>>
    /\ cap = "open"
    /\ writer = "open"
    /\ tried = <<>>
    /\ total_frames = video.len
    /\ frame_count = 0
    /\ files = [f \in {argv.output_path, TempOutput(argv.output_path)} |->
                  IF f = TempOutput(argv.output_path) THEN "opencv" ELSE "absent"]
    /\ calls = <<>>
    /\ exit_status = -1

\* one iteration of the frame loop: a frame is read, processed and written,
\* and the progress printed (the capture reports the frames it holds)
WriteTempFrame ==
    /\ pc = "loop"
    /\ decoded < video.len
    /\ decoded' = decoded + 1
    /\ frame_count' = frame_count + 1
    /\ written' = out_write(written, decoded', NoFrame)
    /\ console' = Append(console, Progress(ProgressValue(frame_count', total_frames)))
    /\ UNCHANGED <<supplied, patternVars, frameVars, params, default_params, pc, err, video, argv,
                   cap, writer, tried, total_frames, files, calls, exit_status>>

\* the end of the frame loop: cap.release(), out.release(), PROGRESS:85
CloseTemp ==
    /\ pc = "loop"
    /\ decoded = video.len
    /\ cap' = "released"
    /\ writer' = "released"
    /\ console' = Append(console, Progress(85))
    /\ pc' = "post"
    /\ UNCHANGED <<supplied, patternVars, frameVars, params, default_params, err, video, decoded,
                   written, argv, tried, total_frames, frame_count, files, calls,
                   exit_status>>

\* optimize_with_ffmpeg(temp_output, output_path) and PROGRESS:95.  ffmpeg
\* succeeds: the temp file is removed (failure ignored).  FileNotFoundError:
\* os.rename(input_path, output_path), whose failure leaves process_video.
\* Any other exception (a non-zero exit status): False is returned.
optimize_with_ffmpeg ==
    /\ pc = "post"
    /\ LET temp == TempOutput(argv.output_path) IN
       \E outcome \in {"ok", "missing", "failed"} :
         /\ outcome = "ok" => temp # argv.output_path
         /\ CASE outcome = "ok" ->
                   \E removed \in BOOLEAN :
                     /\ files' = [f \in DOMAIN files |->
                                    IF f = argv.output_path THEN "ffmpeg"
                                    ELSE IF removed THEN "absent" ELSE files[f]]
                     /\ calls' = calls \o
                            <<[call |-> "ffmpeg", outcome |-> "ok"],
                              [call |-> "remove",
                               outcome |-> IF removed THEN "ok" ELSE "failed"]>>
                     /\ console' = Append(console, Progress(95))
                     /\ pc' = "validate_output"
                     /\ UNCHANGED err
              [] outcome = "missing" ->
                   \E renamed \in BOOLEAN :
                     /\ calls' = calls \o
                            <<[call |-> "ffmpeg", outcome |-> "missing"],
                              [call |-> "rename",
                               outcome |-> IF renamed THEN "ok" ELSE "failed"]>>
                     /\ IF renamed
                        THEN /\ files' = [f \in DOMAIN files |->
                                            IF f = argv.output_path THEN files[temp]
                                            ELSE "absent"]
                             /\ console' = console \o <<Line("WARNING"), Progress(95)>>
                             /\ pc' = "validate_output"
                             /\ UNCHANGED err
                        ELSE /\ console' = Append(console, Line("WARNING"))
                             /\ err' = "OSError"
                             /\ pc' = "raised"
                             /\ UNCHANGED files
              [] outcome = "failed" ->
                   \E partial \in BOOLEAN :
                     /\ files' = IF partial /\ temp # argv.output_path
                                 THEN [files EXCEPT ![argv.output_path] = "partial"]
                                 ELSE files
                     /\ calls' = Append(calls, [call |-> "ffmpeg", outcome |-> "failed"])
                     /\ console' = console \o <<Line("WARNING"), Progress(95)>>
                     /\ pc' = "validate_output"
                     /\ UNCHANGED err
    /\ UNCHANGED <<supplied, patternVars, frameVars, params, default_params, video, decoded,
                   written, argv, cap, writer, tried, total_frames, frame_count,
                   exit_status>>

\* if not self.validate_video(output_path): raise; PROGRESS:100, COMPLETED
ValidateFinal ==
    /\ pc = "validate_output"
    /\ calls' = Append(calls, [call |-> "validate_video",
                               outcome |-> IF IsReadable(files[argv.output_path])
                                           THEN "ok" ELSE "failed"])
    /\ IF IsReadable(files[argv.output_path])
       THEN /\ console' = console \o <<Progress(100), Line("COMPLETED")>>
            /\ pc' = "completed"
            /\ UNCHANGED err
       ELSE /\ err' = "Generated video failed validation"
            /\ pc' = "raised"
            /\ UNCHANGED console
    /\ UNCHANGED <<supplied, patternVars, frameVars, params, default_params, video, decoded,
                   written, argv, cap, writer, tried, total_frames, frame_count, files,
                   exit_status>>

FfmpegNext == WriteTempFrame \/ CloseTemp \/ optimize_with_ffmpeg \/ ValidateFinal

FfmpegSpec == FfmpegInit /\ [][FfmpegNext]_vars

----------------------------------------------------------------------------
(* VHSv1VideoProcessor.process_video called repeatedly by one caller.      *)
(* Amounts are in tenths; generations and the blur sizes are integers.     *)

\* self.default_params of VHSv1VideoProcessor
V1DefaultParams ==
    [luma_compression_rate |-> 10, luma_noise_sigma |-> 300, luma_noise_mean |-> 0,
     chroma_compression_rate |-> 10, chroma_noise_intensity |-> 100,
     vertical_blur |-> 1, horizontal_blur |-> 1, border_size |-> 17, generations |-> 3]

\* the dicts a caller builds
V1ParamChoices ==
    {[V1DefaultParams EXCEPT !.luma_noise_sigma = s, !.luma_noise_mean = m,
                             !.generations = g, !.vertical_blur = b] :
       s \in {100, 300}, m \in {0, 10}, g \in {1, 2, 3}, b \in {1, 2}}

\* the blur sizes made odd
OddBlur(p) ==
    [p EXCEPT !.vertical_blur = IF @ % 2 = 1 THEN @ ELSE @ + 1,
              !.horizontal_blur = IF @ % 2 = 1 THEN @ ELSE @ + 1]

\* the three noise settings multiplied by generations
ScaleByGenerations(p) ==
    [p EXCEPT !.luma_noise_sigma = @ * p.generations,
              !.luma_noise_mean = @ * p.generations,
              !.chroma_noise_intensity = @ * p.generations]

V1Init ==
    /\ params \in V1ParamChoices
    /\ supplied = params
    /\ default_params = V1DefaultParams
    /\ ring_pattern = generate_ring_pattern
    /\ rng = 0
    /\ seed = 0
    /\ pc = "caller"
    /\ frame = NoFrame
    /\ yiq = NoYiq
    /\ result = NoFrame
    /\ trace = <<>>
    /\ ring = <<>>
    /\ stage_in = NoYiq
    /\ err = "none"
    /\ video = [rows |-> 1, cols |-> 1, len |-> 1]
    /\ decoded = 0
    /\ written = <<>>
    /\ size = PatternSize /\ gen_pattern = <<>> /\ patterns = <<>>
    /\ RunIdle

\* process_video(input_path, output_path, params) up to the frame loop: the
\* local params is the caller's dict, or a copy of the defaults when the
\* caller passes none; its items are assigned in place
V1ProcessVideo ==
    /\ pc = "caller"
    /\ Len(calls) < MaxCalls
    /\ \E given \in BOOLEAN :
         LET local == ScaleByGenerations(OddBlur(IF given THEN params ELSE default_params))
         IN  /\ params' = IF given THEN local ELSE params
             /\ calls' = Append(calls, [given |-> given,
                                        luma_noise_sigma |-> local.luma_noise_sigma,
                                        luma_noise_mean |-> local.luma_noise_mean,
                                        chroma_noise_intensity |->
                                            local.chroma_noise_intensity])
    /\ pc' = "frames"
    /\ decoded' = 0
    /\ UNCHANGED <<supplied, patternVars, frameVars, default_params, err, video, written,
                   argv, console, cap, writer, tried, total_frames, frame_count, files,
                   exit_status>>

\* the frame loop and the rest of process_video, up to its return
V1Frames ==
    /\ pc = "frames"
    /\ decoded' = video.len
    /\ pc' = "caller"
    /\ UNCHANGED <<supplied, patternVars, frameVars, params, default_params, err, video,
                   written, runVars>>

V1Next == V1ProcessVideo \/ V1Frames

V1Spec == V1Init /\ [][V1Next]_vars

----------------------------------------------------------------------------
(* Properties of the pipeline *)

\* the last stage process_frame has run
LastStage == IF trace = <<>> THEN "none" ELSE trace[Len(trace)]

\* the last stage run raised (the tape preset lookup is not a stage)
StageRaised == pc = "failed" /\ err = "cv2.error"

\* process_frame has returned its result
Returned == pc \in {"return", "returned"}

\* every sample of g is within one level of the same sample of f
WithinOne(f, g) ==
    \A q \in DOMAIN f.px : \A c \in {B, G, R} : Abs(f.px[q][c] - g.px[q][c]) <= 1

\* every scanline of f is one colour
IsRowConstantFrame(f) ==
    \A q1, q2 \in DOMAIN f.px : q1[1] = q2[1] => f.px[q1] = f.px[q2]

\* the parameter records of the no-op claim: no noise, no bleeding, no
\* sharpening, no ringing, a valid preset
NoOpParams(p) ==
    /\ p.video_noise = 0
    /\ p.chroma_noise = 0
    /\ p.chroma_phase_noise = 0
    /\ p.color_bleeding = 0
    /\ p.vhs_out_sharpen <= ParamScale
    /\ ~p.enable_ringing
    /\ p.tape_speed \in SpeedNames

\* |m1 - m2| < 1/2 for two means given as fractions
MeansWithinHalf(m1, m2) ==
    2 * Abs(m1[1] * m2[2] - m2[1] * m1[2]) < m1[2] * m2[2]

\* C1 as stated: with every effect at its no-op value and any valid preset,
\* process_frame(F) is within one level of F at every sample, for EVERY
\* frame F.  The tape-speed blur runs for every preset, so this fails on a
\* frame whose scanlines are not constant.
C1_NoOpAnyFrame ==
    (Returned /\ NoOpParams(params)) => WithinOne(frame, result)

\* C1: with every effect at its no-op value and any valid preset,
\* process_frame(F) is within one level of F at every sample, for every frame
\* F whose scanlines are each one colour (uniform frames among them).
C1_NoOpRowConstantFrame ==
    (Returned /\ NoOpParams(params) /\ IsRowConstantFrame(frame))
        => WithinOne(frame, result)

\* a two-row frame of two colours, one per scanline, returned by the EP preset
C1_Witness ==
    /\ pc = "returned"
    /\ NoOpParams(params)
    /\ params.tape_speed = "EP"
    /\ IsRowConstantFrame(frame)
    /\ ~IsUniformFrame(frame)
    /\ frame.cols > 1
    /\ WithinOne(frame, result)

\* C2: yiq2bgr(bgr2yiq(F)) is within one level of F at every sample.
C2_RoundTrip ==
    pc = "round_trip_done" => WithinOne(frame, result)

\* a saturated colour whose round trip loses a level to the truncating cast
C2_Witness ==
    /\ pc = "round_trip_done"
    /\ frame.px[<<0, 0>>] = <<255, 0, 255>>
    /\ result # frame

\* the stage order of process_frame for a parameter record
StageOrder(p) ==
    IF p.enable_ringing
    THEN <<"bgr2yiq", "ringing", "vhs_noise", "chroma_noise", "color_bleeding",
           "tape_speed", "yiq2bgr", "sharpen">>
    ELSE <<"bgr2yiq", "vhs_noise", "chroma_noise", "color_bleeding",
           "tape_speed", "yiq2bgr", "sharpen">>

\* C3: the stages run in the fixed order forward conversion, ringing (only
\* if enabled), luma noise, chroma noise, bleeding, tape blur, inverse
\* conversion, sharpening: the stages run so far are always a prefix of that
\* order, and a returned frame has been through all of it.
C3_StageOrder ==
    /\ Len(trace) <= Len(StageOrder(params))
    /\ trace = SubSeq(StageOrder(params), 1, Len(trace))
    /\ Returned => trace = StageOrder(params)

\* a frame returned with ringing enabled: all eight stages have run
C3_Witness ==
    /\ pc = "returned"
    /\ params.enable_ringing
    /\ Len(trace) = 8
    /\ trace[2] = "ringing"
    /\ trace[3] = "vhs_noise"

\* C4 as stated: an unknown tape_speed preset is rejected before any frame
\* is decoded and before any stage has run.  The preset is looked up inside
\* process_frame, so the error comes after the frame has been decoded and
\* five stages have run.
C4_RejectedAtValidation ==
    err = "AttributeError" => (decoded = 0 /\ trace = <<>>)

\* the cell of the shifted spectrum that holds the DC bin
DcCell(rows, cols) ==
    CHOOSE k \in Pos(rows, cols) : ShiftSource(k, rows, cols) = <<0, 0>>

\* C5: the mask cell that multiplies the DC bin of the shifted spectrum is
\* exactly 1, for every plane size and every power.
C5_MaskDcIsOne ==
    ring # <<>> =>
        \A i \in 1 .. Len(ring) :
            ring[i].mask.n[DcCell(yiq.rows, yiq.cols)] = ring[i].mask.d

\* a 2 x 3 plane at power 3 whose mask attenuates another bin
C5_Witness ==
    /\ ring # <<>>
    /\ yiq.rows = 2
    /\ yiq.cols = 3
    /\ params.ringing_power = 3
    /\ ring[1].mask.n[<<0, 0>>] < ring[1].mask.d
    /\ ring[1].mask.n[DcCell(2, 3)] = ring[1].mask.d

\* C6: when the mean of the filtered plane is not zero, the plane
\* apply_ringing returns has the mean the plane had before filtering.
C6_MeanRestored ==
    ring # <<>> =>
        \A i \in 1 .. Len(ring) :
            ring[i].current_dc[1] # 0 => Mean(ring[i].out) = ring[i].original_dc

\* a luma plane the filter has changed, with a non-zero mean
C6_Witness ==
    /\ ring # <<>>
    /\ ring[1].current_dc[1] # 0
    /\ ring[1].divided
    /\ ring[1].filtered # ring[1].channel
    /\ Mean(ring[1].out) = ring[1].original_dc

\* the parameters of the end-to-end brightness test
BrightnessTestParams ==
    [MinimalParams EXCEPT !.enable_ringing = TRUE, !.ringing_power = 2]

\* the mean of all samples of a frame, as <<sum, count>>
FrameMean(f) ==
    << SumOver([q \in DOMAIN f.px |-> f.px[q][B] + f.px[q][G] + f.px[q][R]], DOMAIN f.px),
       3 * f.rows * f.cols >>

\* C7: a uniform gray (128) frame, every other effect off, ringing at
\* power 2, preset SP: the mean of all output samples is in [127.5, 128.5].
C7_GrayBrightness ==
    (Returned /\ params = BrightnessTestParams /\ IsUniformFrame(frame)
       /\ frame.px[<<0, 0>>] = Gray)
        => LET m == FrameMean(result)
           IN  255 * m[2] <= 2 * m[1] /\ 2 * m[1] <= 257 * m[2]

\* the gray frame of the largest modelled size, returned by that run
C7_Witness ==
    /\ pc = "returned"
    /\ params = BrightnessTestParams
    /\ IsUniformFrame(frame)
    /\ frame.px[<<0, 0>>] = Gray
    /\ frame.rows * frame.cols > 1
    /\ ring # <<>>
    /\ FrameMean(result)[1] = 128 * FrameMean(result)[2]

\* C8: on a constant frame and for ringing power 1, 2 and 3, apply_ringing
\* changes the mean of each of the Y, I and Q planes by less than 0.5.
C8_ConstantFrameMean ==
    (ring # <<>> /\ IsUniformFrame(frame) /\ params.ringing_power \in {1, 2, 3})
        => \A i \in 1 .. Len(ring) :
              MeansWithinHalf(Mean(ring[i].out), Mean(ring[i].channel))

\* a constant coloured frame, so that I and Q are not zero, at power 3
C8_Witness ==
    /\ ring # <<>>
    /\ IsUniformFrame(frame)
    /\ frame.px[<<0, 0>>] = Red
    /\ frame.rows * frame.cols > 1
    /\ params.ringing_power = 3
    /\ Mean(ring[2].channel)[1] # 0

\* C9: when the mean of a filtered plane is exactly zero the DC step is
\* skipped: nothing is divided, nothing is raised, the plane is returned as
\* filtered, and the other planes and the rest of the frame are processed.
C9_ZeroMeanSkipped ==
    (ring # <<>> /\ \E i \in 1 .. Len(ring) : ring[i].current_dc[1] = 0)
        => /\ Len(ring) = 3
           /\ \A i \in 1 .. Len(ring) :
                 ring[i].current_dc[1] = 0
                    => ~ring[i].divided /\ ring[i].out = ring[i].filtered
           /\ pc = "vhs_noise"
                 => yiq = [yiq EXCEPT !.Y = ring[1].out, !.I = ring[2].out,
                                      !.Q = ring[3].out]
           /\ err = "none"
           /\ pc # "failed"

\* a frame whose I plane is not zero but has zero mean, next to a luma
\* plane that is corrected, and the frame is returned
C9_Witness ==
    /\ pc = "returned"
    /\ ring # <<>>
    /\ ring[2].current_dc[1] = 0
    /\ ~IsUniformPlane(ring[2].filtered)
    /\ ~ring[2].divided
    /\ ring[1].divided
    /\ result # NoFrame

\* C10: a stage given its disabled value returns its input unchanged and
\* raises nothing: apply_vhs_noise for an amount <= 0, apply_chroma_noise
\* for both amounts <= 0, apply_color_bleeding for an amount <= 0, and the
\* sharpener for vhs_out_sharpen <= 1.0.
C10_DisabledStageIsIdentity ==
    /\ (LastStage = "vhs_noise" /\ params.video_noise <= 0)
          => (yiq = stage_in /\ ~StageRaised)
    /\ (LastStage = "chroma_noise" /\ params.chroma_noise <= 0
          /\ params.chroma_phase_noise <= 0)
          => (yiq = stage_in /\ ~StageRaised)
    /\ (LastStage = "color_bleeding" /\ params.color_bleeding <= 0)
          => (yiq = stage_in /\ ~StageRaised)
    /\ (LastStage = "sharpen" /\ params.vhs_out_sharpen <= ParamScale)
          => (result = yiq2bgr(yiq) /\ ~StageRaised)

\* the chroma stage just run with both amounts negative on planes that are
\* neither zero nor constant
C10_Witness ==
    /\ LastStage = "chroma_noise"
    /\ params.chroma_noise <= 0
    /\ params.chroma_phase_noise < 0
    /\ ~IsUniformPlane(stage_in.I)
    /\ yiq = stage_in

\* C11 as stated: for every color_bleeding amount > 0 the kernel size of
\* apply_color_bleeding is odd and >= 1 and the call does not fail.
\* int(amount * 2) + 1 is even whenever int(amount * 2) is odd (0.5 gives 2,
\* 1.5 gives 4), and cv2.GaussianBlur raises on an even size.
C11_BleedKernelOdd ==
    (LastStage = "color_bleeding" /\ params.color_bleeding > 0)
        => /\ BleedKernelSize(params.color_bleeding) >= 1
           /\ BleedKernelSize(params.color_bleeding) % 2 = 1
           /\ ~StageRaised

\* plane p with row r set to zero
ZeroRow(p, r) == Plane([q \in DOMAIN p.n |-> IF q[1] = r THEN 0 ELSE p.n[q]], p.d)

\* planes p1 and p2 agree on every row but r
SameOutsideRow(p1, p2, r) ==
    \A q \in DOMAIN p1.n : q[1] # r => p1.n[q] * p2.d = p2.n[q] * p1.d

\* C12 as stated: both filters of apply_color_bleeding act along the
\* scanline only, so changing row r of the I and Q planes of the input
\* changes the output in row r only.  The Gaussian blur is given the size
\* (1, kernel_size), which is 1 wide and kernel_size high: it runs down the
\* columns, across scanlines.
C12_BleedRowLocal ==
    (LastStage = "color_bleeding" /\ params.color_bleeding > 0 /\ ~StageRaised)
        => \A r \in 0 .. stage_in.rows - 1 :
              LET changed == [stage_in EXCEPT !.I = ZeroRow(stage_in.I, r),
                                              !.Q = ZeroRow(stage_in.Q, r)]
                  other   == apply_color_bleeding(changed, params.color_bleeding)
              IN  /\ SameOutsideRow(yiq.I, other.I, r)
                  /\ SameOutsideRow(yiq.Q, other.Q, r)

\* the sum of the horizontal gradient magnitudes of a plane, as <<sum, d>>
HorizontalGradient(p, rows, cols) ==
    << SumOver([q \in Pos(rows, cols) |->
                  IF q[2] + 1 < cols THEN Abs(p.n[<<q[1], q[2] + 1>>] - p.n[q]) ELSE 0],
               Pos(rows, cols)),
       p.d >>

\* the three gradient sums of the planes y after the blur of preset `speed`
GradientsAfter(y, speed) ==
    LET o == apply_tape_speed_effects(y, speed)
    IN  << HorizontalGradient(o.Y, y.rows, y.cols), HorizontalGradient(o.I, y.rows, y.cols),
           HorizontalGradient(o.Q, y.rows, y.cols) >>

\* fraction a is less than fraction b
FracLess(a, b) == a[1] * b[2] < b[1] * a[2]

\* C13 as stated: on a plane of alternating columns the gradient sum after
\* EP is strictly lower than after LP, which is strictly lower than after SP.
\* Each of the three kernels sums to zero with alternating signs, so every
\* preset flattens such a plane completely and the three sums are equal.
C13_StrictlyMonotone ==
    pc = "tape_done"
        => \A i \in 1 .. 3 :
              /\ FracLess(GradientsAfter(stage_in, "EP")[i], GradientsAfter(stage_in, "LP")[i])
              /\ FracLess(GradientsAfter(stage_in, "LP")[i], GradientsAfter(stage_in, "SP")[i])

\* C13: on a plane of alternating columns the gradient sum after EP is not
\* higher than after LP, which is not higher than after SP: all three are
\* zero, because each kernel removes the alternation entirely, and the
\* plane the stage returns is constant along every row.
C13_StripesFlattened ==
    pc = "tape_done"
        => /\ \A i \in 1 .. 3 :
                 /\ ~FracLess(GradientsAfter(stage_in, "LP")[i],
                              GradientsAfter(stage_in, "EP")[i])
                 /\ ~FracLess(GradientsAfter(stage_in, "SP")[i],
                              GradientsAfter(stage_in, "LP")[i])
                 /\ \A t \in SpeedNames : GradientsAfter(stage_in, t)[i][1] = 0
           /\ HorizontalGradient(yiq.Y, yiq.rows, yiq.cols)[1] = 0
           /\ HorizontalGradient(yiq.I, yiq.rows, yiq.cols)[1] = 0
           /\ HorizontalGradient(yiq.Q, yiq.rows, yiq.cols)[1] = 0

\* black and white stripes, six columns or more wide, after the EP blur
C13_Witness ==
    /\ pc = "tape_done"
    /\ params.tape_speed = "EP"
    /\ frame.cols >= 6
    /\ frame.px[<<0, 0>>] = Black
    /\ frame.px[<<0, 1>>] = White
    /\ HorizontalGradient(stage_in.Y, yiq.rows, yiq.cols)[1] > 0
    /\ HorizontalGradient(yiq.Y, yiq.rows, yiq.cols)[1] = 0

\* floor(1000 * (cy*Y + ci*I + cq*Q) / 1000) at position q: a channel of
\* yiq2bgr before the clip and the cast, in thousandths of a level
ChannelThousandths(y, q, cy, ci, cq) ==
    LET L  == Lcm(Lcm(y.Y.d, y.I.d), y.Q.d)
        part(c, p)  == MulDivMod(c, p.n[q] % p.d, p.d)
        whole(c, p) == c * (p.n[q] \div p.d) + part(c, p)[1]
        rest(c, p)  == part(c, p)[2] * (L \div p.d)
    IN  whole(cy, y.Y) + whole(ci, y.I) + whole(cq, y.Q)
        + ((rest(cy, y.Y) + rest(ci, y.I) + rest(cq, y.Q)) \div L)

\* sample is the value t (in thousandths) clamped and rounded to the nearest
\* integer; a value within a thousandth of a half may go either way
IsNearestSample(sample, t) ==
    /\ t % CoefScale > CoefScale \div 2 => sample = ClipToSample((t \div CoefScale) + 1)
    /\ t % CoefScale < CoefScale \div 2 => sample = ClipToSample(t \div CoefScale)

\* C14 as stated: yiq2bgr clamps each reconstructed channel value to
\* [0,255] and rounds it to the nearest integer.  astype(np.uint8) drops the
\* fraction instead, so 254.66 becomes 254.
C14_RoundsToNearest ==
    pc = "round_trip_done"
        => \A q \in DOMAIN result.px :
              /\ IsNearestSample(result.px[q][B], ChannelThousandths(yiq, q, 1000, -1105, 1702))
              /\ IsNearestSample(result.px[q][G], ChannelThousandths(yiq, q, 1000, -272, -647))
              /\ IsNearestSample(result.px[q][R], ChannelThousandths(yiq, q, 1000, 956, 619))

\* the sample of channel c at q that yiq2bgr yields is t (in thousandths)
\* clamped to [0, 255] when t is out of range
IsClamped(sample, t) ==
    /\ t >= (MaxSample + 1) * CoefScale => sample = MaxSample
    /\ t < 0 => sample = 0

C16_IndependentOfHistory ==
    pc = "return" => result = process_frame(frame, params, ring_pattern, seed)

\* C17: ring_pattern holds the values generate_ring_pattern gave it, after
\* any number of frames, for every power and frame size; writing 1.0 into
\* the centre of the mask does not write into ring_pattern.
C17_RingPatternUnchanged ==
    ring_pattern = generate_ring_pattern

\* the second frame of a video has been through apply_ringing: the centre
\* of its mask is 1.0 while the pattern entry it was read from is not
C17_Witness ==
    /\ pc = "return"
    /\ decoded = 2
    /\ ring # <<>>
    /\ ring[1].mask.n[MaskCenter(yiq.rows, yiq.cols)] = ring[1].mask.d
    /\ PatternIndices(yiq.rows, yiq.cols, Len(ring_pattern))[MaskCenter(yiq.rows, yiq.cols)] = 0
    /\ ring_pattern[1] # PatScale

\* C18: no step of process_frame changes the frame it was given or the
\* parameter record it was given, for every parameter combination.
C18_InputsUnchanged ==
    [][frame' = frame /\ params' = params]_vars

\* a patterned frame returned with every effect enabled: the result differs
\* from the frame, which still holds its pattern
C18_Witness ==
    /\ pc = "returned"
    /\ params.enable_ringing
    /\ params.video_noise > 0
    /\ params.chroma_noise > 0
    /\ params.color_bleeding > 0
    /\ params.vhs_out_sharpen > ParamScale
    /\ ~IsUniformFrame(frame)
    /\ result # frame
    /\ params \in ParamChoices

\* C19: the k-th frame handed to the encoder is the result for the k-th
\* frame decoded: one write per decoded frame, in the order of decoding,
\* each write handing over the frame process_frame has just returned, and
\* every frame of the video written when the loop ends.
C19_PlaybackOrder ==
    /\ \A i \in 1 .. Len(written) : written[i].k = i
    /\ Len(written) <= decoded
    /\ decoded <= Len(written) + 1
    /\ pc \in {"read", "done"} => Len(written) = decoded
    /\ (pc = "read" /\ decoded > 0) => written[decoded].image = result
    /\ pc = "done" => Len(written) = video.len

\* a video of two frames written out, with two different results
C19_Witness ==
    /\ pc = "done"
    /\ video.len = 2
    /\ Len(written) = 2
    /\ written[1].k = 1
    /\ written[2].k = 2
    /\ written[1].image # written[2].image

\* C20: apply_vhs_noise returns I and Q as given, apply_chroma_noise returns
\* Y as given and apply_color_bleeding returns Y as given, for every amount.
C20_OwnPlanesOnly ==
    /\ LastStage = "vhs_noise" => (yiq.I = stage_in.I /\ yiq.Q = stage_in.Q)
    /\ LastStage = "chroma_noise" => yiq.Y = stage_in.Y
    /\ LastStage = "color_bleeding" => yiq.Y = stage_in.Y

\* bleeding has changed the I plane of a frame whose luma is not constant
C20_Witness ==
    /\ LastStage = "color_bleeding"
    /\ params.color_bleeding > 0
    /\ ~StageRaised
    /\ err = "none"
    /\ yiq.I # stage_in.I
    /\ ~IsUniformPlane(yiq.Y)
    /\ yiq.Y = stage_in.Y

\* C21: every array generate_ring_pattern(n) returns, for n >= 2, has n
\* values, none of them NaN, all within [0, 1]; and two calls with the same n
\* return the same array
C21_RingPatternBounds ==
    /\ \A k \in DOMAIN patterns :
         /\ patterns[k].d > 0
         /\ \A i \in DOMAIN patterns[k].v :
              0 <= patterns[k].v[i] /\ patterns[k].v[i] <= patterns[k].d
    /\ pc = "call" /\ patterns # <<>> => Len(patterns[Len(patterns)].v) = size
    /\ \A j, k \in DOMAIN patterns :
         Len(patterns[j].v) = Len(patterns[k].v) => patterns[j] = patterns[k]

\* two calls with the same size have returned, the size being one whose
\* envelope sin(4x) vanishes on the whole grid up to rounding
C21_Witness ==
    /\ Len(patterns) = 2
    /\ size = 5
    /\ Len(patterns[1].v) = 5
    /\ \E i \in DOMAIN patterns[2].v : patterns[2].v[i] = patterns[2].d
    /\ \E i \in DOMAIN patterns[2].v : patterns[2].v[i] = 0

\* the frame strength * f + (1 - strength) * blur(f), blur the 3x3 Gaussian
\* of sigma 1.0, every sample cut to an integer in [0, 255]
UnsharpMask(f, strength) ==
    LET g == Sigma1Gaussian
        unit == g.d * g.d
        chan(c) == [q \in Pos(f.rows, f.cols) |-> f.px[q][c]]
        blur(c) == Filter2D(chan(c), f.rows, f.cols, g, g)
        mix(c, q) == (strength * f.px[q][c] * unit + (ParamScale - strength) * blur(c)[q])
                     \div (ParamScale * unit)
    IN  [q \in Pos(f.rows, f.cols) |->
           [c \in {B, G, R} |-> Max(0, Min(MaxSample, mix(c, q)))]]

\* C22: for a strength above 1.0 the output sharpener turns the frame f it is
\* given into clamp(strength * f + (1 - strength) * blur(f)), samples in
\* [0, 255]; a uniform frame comes out unchanged, so that its mean brightness
\* is not reduced
C22_UnsharpMask ==
    [][(pc = "sharpen" /\ params.vhs_out_sharpen > ParamScale)
         => /\ \A q \in DOMAIN result.px : \A c \in {B, G, R} :
                 result'.px[q][c] = UnsharpMask(result, params.vhs_out_sharpen)[q][c]
            /\ IsUniformFrame(result)
                 => /\ result' = result
                    /\ FrameMean(result')[1] >= FrameMean(result)[1]]_vars

\* a uniform gray frame of more than one pixel went through the sharpener at
\* strength 5.0 and was returned as it was
C22_Witness ==
    /\ pc = "returned"
    /\ LastStage = "sharpen"
    /\ params.vhs_out_sharpen = 50
    /\ IsUniformFrame(frame)
    /\ frame.px[<<0, 0>>] = Gray
    /\ frame.rows * frame.cols > 1
    /\ result = frame

\* the defaults as documented
DocumentedDefaults ==
    [composite_preemphasis |-> 40, vhs_out_sharpen |-> 25, color_bleeding |-> 50,
     video_noise |-> 10000, chroma_noise |-> 50000, chroma_phase_noise |-> 250,
     enable_ringing |-> TRUE, ringing_power |-> 2, tape_speed |-> "SP"]

\* the keys the caller of process_video supplied
SuppliedKeys == IF argv.argc > 3 THEN DOMAIN params ELSE {}

\* C23: the parameter validation of process_video gives every key the caller
\* left out its documented default, keeps the value of every key the caller
\* supplied, and leaves default_params as it was; default_params holds the
\* documented defaults throughout
C23_DefaultsFilled ==
    /\ [](default_params = DocumentedDefaults)
    /\ [][pc = "validate"
            => /\ DOMAIN params' = SuppliedKeys \cup DOMAIN DocumentedDefaults
               /\ \A k \in DOMAIN DocumentedDefaults \ SuppliedKeys :
                     params'[k] = DocumentedDefaults[k]
               /\ \A k \in SuppliedKeys : params'[k] = params[k]
               /\ default_params' = default_params]_vars

\* the caller supplied two keys with values other than the defaults; the
\* validated dict has them and the seven defaults
C23_Witness ==
    /\ pc = "open"
    /\ argv.argc > 3
    /\ params.tape_speed = "XP"
    /\ params.enable_ringing = FALSE
    /\ params.video_noise = 10000
    /\ params.ringing_power = 2

\* the codec order of the claim
FallbackOrder == <<"H264", "MJPG", "XVID", "mp4v">>

NoCodecMessage == "Failed to initialize video writer with any codec"

\* C24: process_video constructs writers for H264, MJPG, XVID, mp4v in this
\* order, stops at the first writer that opens and tries no codec after it;
\* when none of the four opens it raises 'Failed to initialize video writer
\* with any codec', and no frame has been decoded or written by then
C24_CodecFallback ==
    /\ [](/\ Len(tried) <= Len(FallbackOrder)
          /\ \A i \in DOMAIN tried : tried[i] = FallbackOrder[i]
          /\ pc = "loop" => writer = "open" /\ tried # <<>>
          /\ decoded > 0 \/ written # <<>> => writer \in {"open", "released"} /\ tried # <<>>
          /\ err = NoCodecMessage
               => tried = FallbackOrder /\ writer # "open" /\ decoded = 0 /\ written = <<>>
          /\ (tried = FallbackOrder /\ writer # "open" /\ pc \notin {"codec", "finally"}
                /\ cap # "released")
               => err = NoCodecMessage)
    /\ [][/\ (writer = "open" \/ pc # "codec") => tried' = tried
          /\ (pc = "codec" /\ writer' = "open") => pc' = "loop"]_vars

\* H264 and MJPG did not open, XVID did: the frame loop starts with the XVID
\* writer and mp4v untried
C24_Witness ==
    /\ pc = "loop"
    /\ tried = <<"H264", "MJPG", "XVID">>
    /\ writer = "open"
    /\ decoded = 0

\* a line with this tag was printed
Printed(tag) == \E i \in DOMAIN console : console[i].tag = tag

RECURSIVE ProgressValues(_)
ProgressValues(lines) ==
    IF lines = <<>> THEN <<>>
    ELSE IF Head(lines).tag = "PROGRESS"
         THEN <<Head(lines).n>> \o ProgressValues(Tail(lines))
         ELSE ProgressValues(Tail(lines))

\* C26 as stated: while frames are processed no PROGRESS value exceeds 80,
\* and the PROGRESS values of a run never decrease, whatever frame count the
\* capture reported; a reported count of zero does not end the run
C26_ProgressMonotone ==
    LET v == ProgressValues(console) IN
    /\ pc \in {"loop", "finally"} => \A i \in DOMAIN v : v[i] <= 80
    /\ \A i, j \in DOMAIN v : i < j => v[i] <= v[j]
    /\ err # "ZeroDivisionError"

\* the n-th call made after the frame loop is this call with this outcome
Called(n, call, outcome) ==
    Len(calls) >= n /\ calls[n] = [call |-> call, outcome |-> outcome]

\* post-processing is over: a call failed for good or validation was reached
PostProcessed == calls # <<>> /\ pc \notin {"remove", "rename"}

\* C27: after the frame loop, when ffmpeg succeeds output_path holds what
\* ffmpeg wrote and os.remove(temp_output) is attempted; when ffmpeg is
\* missing or fails the temp file is renamed to output_path, and a failing
\* rename raises 'Failed to finalize output file'; whenever nothing was
\* raised validate_video(output_path) runs next, and when it fails an
\* exception is raised and no completion is reported
C27_PostProcessing ==
    /\ calls # <<>> => calls[1].call = "ffmpeg" /\ cap = "released" /\ writer = "released"
    /\ (PostProcessed /\ calls[1].outcome = "ok")
         => /\ Len(calls) >= 2 /\ calls[2].call = "remove"
            /\ files[argv.output_path] = "ffmpeg"
            /\ pc = "validate_output" => Len(calls) = 2
    /\ (PostProcessed /\ calls[1].outcome \in {"missing", "failed"})
         => /\ Len(calls) >= 2 /\ calls[2].call = "rename"
            /\ calls[2].outcome = "ok" => files[argv.output_path] = "opencv"
            /\ calls[2].outcome = "failed"
                 => /\ err = "Failed to finalize output file"
                    /\ Len(calls) = 2
                    /\ pc \in {"raised", "exited"}
            /\ (calls[2].outcome = "ok" /\ pc # "validate_output") => Len(calls) = 3
    /\ Len(calls) <= 3
    /\ Len(calls) = 3
         => /\ calls[3].call = "validate_video"
            /\ calls[3].outcome = "failed"
                 => /\ err = "Generated video failed validation"
                    /\ ~Printed("COMPLETED")
                    /\ pc \in {"raised", "exited"}
    /\ Printed("COMPLETED") => Called(3, "validate_video", "ok")

\* ffmpeg failed and left a partial file at output_path; the rename put the
\* OpenCV file there, validation passed and the run completed
C27_Witness ==
    /\ pc = "completed"
    /\ Called(1, "ffmpeg", "failed")
    /\ Called(2, "rename", "ok")
    /\ Called(3, "validate_video", "ok")
    /\ argv.output_path = "out.mp4"
    /\ files[argv.output_path] = "opencv"
    /\ files[TempOutput(argv.output_path)] = "absent"

\* C28 as stated: whenever process_video is left after the input capture was
\* opened (by returning, by an exception of a frame, or because no writer
\* opened with any codec) the capture has been released, and so has the
\* writer if one was opened
C28_ReleasedOnExit ==
    (pc \in {"raised", "completed", "exited"} /\ cap # "None")
        => cap = "released" /\ writer # "open"

\* C29 as stated: in the TrailsV2, GSLv1 and Upscale processors, when ffmpeg
\* is missing or exits non-zero after the frame loop wrote the temp file,
\* the OpenCV-encoded temp file is at output_path when validation starts, and
\* no run with a readable OpenCV file fails validation after a failure of
\* ffmpeg
C29_OpenCvDelivered ==
    (calls # <<>> /\ calls[1].outcome \in {"missing", "failed"})
        => /\ pc = "validate_output" => files[argv.output_path] = "opencv"
           /\ err # "Generated video failed validation"

\* C30 as stated: in every call of VHSv1's process_video that is handed the
\* caller's dict, a repeated call with the same dict included, the frames use
\* luma_noise_sigma, luma_noise_mean and chroma_noise_intensity equal to the
\* values the caller put into the dict times generations; default_params is
\* never modified
C30_ScaledOncePerCall ==
    /\ default_params = V1DefaultParams
    /\ \A i \in DOMAIN calls :
         calls[i].given
            => /\ calls[i].luma_noise_sigma
                    = supplied.luma_noise_sigma * supplied.generations
               /\ calls[i].luma_noise_mean
                    = supplied.luma_noise_mean * supplied.generations
               /\ calls[i].chroma_noise_intensity
                    = supplied.chroma_noise_intensity * supplied.generations

====
